---- MODULE Spec2Model ----
(***************************************************************************)
(* State-machine model of the GIF codec (SkGifCodec and its scanline       *)
(* decoder): header scan, colour table, frame geometry, interlace row      *)
(* mapping, bulk decode and incremental decode; and of the fill-rect draw  *)
(* op (FillRectOp, GrFillRectOp::MakeOp and AddFillRectOps).               *)
(*                                                                         *)
(* Memory is modelled in pixels: the destination is a linear buffer of     *)
(* info.width * info.height pixels with a tight stride (dstRowBytes =      *)
(* info.width pixels), address = row * width + column.                     *)
(***************************************************************************)
EXTENDS Integers, Sequences, FiniteSets, TLC

VARIABLES
    ilHeight,       \* interlace harness: frame height under test
    ilRow,          \* interlace harness: next encoded row
    ilOut,          \* interlace harness: output rows produced so far
    parserLog,      \* header scan: what the parser has returned so far
    saveExt,        \* header scan: SavedImage saveExt (extension blocks)
    scanPc,         \* header scan: position in ReadUpToFirstImage
    scanResult,     \* header scan: Result returned by ReadUpToFirstImage
    transIndex,     \* header scan: *transIndex out-parameter
    header,         \* header scan: outcome of ReadHeader / NewFromStream
    info,           \* codec: getInfo() dimensions (logical canvas)
    gif,            \* codec: fGif (image descriptor, colour maps, background)
    gifLine,        \* decompressor: number of rows DGifGetLine has delivered
    fTransIndex,    \* codec field
    fFillIndex,     \* codec field
    fFrameDims,     \* codec field (SkIRect)
    fFrameIsSubset, \* codec field
    fColorTable,    \* codec field
    fSwizzler,      \* codec field
    fSrcBuffer,     \* codec field
    dst,            \* caller's destination buffer (linear, in pixels)
    written,        \* addresses written so far by the running decode call
    dstPtr,         \* local dst / dstRow pointer of the running decode
    pc,             \* position of the running decode call
    y,              \* loop counter of the running decode call
    result,         \* Result of the last decode call
    rowLog,         \* widths requested from DGifGetLine in the running call
    fNeedsRewind,   \* codec base class: a decode has been started before
    fCurrScanline,  \* scanline decoder: row cursor of the base class
    opts,           \* the request (options, destination) of the last decode call
    draw,           \* fill-rect: the quad set and AA type AddFillRectOps is called with
    addOps,         \* fill-rect: AddFillRectOps (position, offset, numLeft, ops added)
    fillRects,      \* fill-rect: the op the calls act on (this)
    thatOp,         \* fill-rect: the op offered to onCombineIfPossible (that)
    opCall          \* fill-rect: the last call on fillRects and what it returned

ilVars == <<ilHeight, ilRow, ilOut>>

scanVars == <<parserLog, saveExt, scanPc, scanResult, transIndex, header>>

codecVars == <<info, gif, gifLine, fTransIndex, fFillIndex, fFrameDims,
               fFrameIsSubset, fColorTable, fSwizzler, fSrcBuffer, dst, written,
               dstPtr, pc, y, result, rowLog, fNeedsRewind, fCurrScanline, opts>>

opVars == <<draw, addOps, fillRects, thatOp, opCall>>

vars == <<ilVars, scanVars, codecVars, opVars>>

-----------------------------------------------------------------------------
(* Bounds of the model *)

MaxInterlaceHeight == 17

MaxBlocks == 3

MaxRecords == 3

MaxGeomCanvas == 3

MaxCanvasWidth == 2

MaxCanvasHeight == 4

-----------------------------------------------------------------------------
(* Program constants *)

\* TLC's integers are 32-bit signed, so an unsigned word is modelled 30 bits
\* wide: U32Modulus stands for 2^32 and SK_MaxU32 for its all-ones value.
SK_MaxU32 == 1073741823

U32Modulus == 1073741824

maxColors == 256

GRAPHICS_EXT_FUNC_CODE == 249

SK_ColorTRANSPARENT == 0

U32(x) == x % U32Modulus

-----------------------------------------------------------------------------
(* Interlace row mapping *)

ceil_div_floor(a, b) == a \div b

ceil_div(a, b) == U32(a + b - 1) \div b

\* Variant of get_output_row_interlaced for rows stored top to bottom.
get_output_row_progressive(encodedRow, height) == encodedRow

get_output_row_interlaced(encodedRow, height) ==
    IF U32(encodedRow * 8) < height
    THEN U32(encodedRow * 8)
    ELSE IF U32(encodedRow * 4) < height
    THEN U32(4 + 8 * U32(encodedRow - ceil_div(height, 8)))
    ELSE IF U32(encodedRow * 2) < height
    THEN U32(2 + 4 * U32(encodedRow - ceil_div(height, 4)))
    ELSE U32(1 + 2 * U32(encodedRow - ceil_div(height, 2)))

-----------------------------------------------------------------------------
(* Transparency index from the accumulated extension blocks.                *)
(* A SavedImage is [ExtensionBlockCount, ExtensionBlocks]; a block is       *)
(* [Function, ByteCount, Bytes]; C index i is TLA+ index i + 1.             *)

RECURSIVE find_trans_index_nobreak_from(_, _)
find_trans_index_nobreak_from(image, i) ==
    IF i < 0
    THEN SK_MaxU32
    ELSE LET extBlock == image.ExtensionBlocks[i + 1] IN
         IF GRAPHICS_EXT_FUNC_CODE = extBlock.Function /\ extBlock.ByteCount >= 4
            /\ 1 = extBlock.Bytes[1] % 2
         THEN extBlock.Bytes[4]
         ELSE find_trans_index_nobreak_from(image, i - 1)

find_trans_index_nobreak(image) ==
    find_trans_index_nobreak_from(image, image.ExtensionBlockCount - 1)

RECURSIVE find_trans_index_from(_, _)
find_trans_index_from(image, i) ==
    IF i < 0
    THEN SK_MaxU32
    ELSE LET extBlock == image.ExtensionBlocks[i + 1] IN
         IF GRAPHICS_EXT_FUNC_CODE = extBlock.Function /\ extBlock.ByteCount >= 4
         THEN IF 1 = extBlock.Bytes[1] % 2
              THEN extBlock.Bytes[4]
              ELSE SK_MaxU32
         ELSE find_trans_index_from(image, i - 1)

find_trans_index(image) ==
    find_trans_index_from(image, image.ExtensionBlockCount - 1)

-----------------------------------------------------------------------------
(* Frame geometry.  An SkIRect is [fLeft, fTop, fRight, fBottom].           *)

MakeEmpty == [fLeft |-> 0, fTop |-> 0, fRight |-> 0, fBottom |-> 0]

setXYWH(x, yy, w, h) == [fLeft |-> x, fTop |-> yy, fRight |-> x + w, fBottom |-> yy + h]

RectWidth(r) == r.fRight - r.fLeft

RectHeight(r) == r.fBottom - r.fTop

\* One axis of the clamp: returns <<start, extent>>.
ClampAxisNoShift(frameStart, frameExtent, extent) ==
    IF frameExtent > extent THEN <<0, extent>>
    ELSE IF frameStart < 0 THEN <<0, frameExtent>>
    ELSE <<frameStart, frameExtent>>

\* Variant of ClampAxis that shrinks an oversized frame where it starts.
ClampAxisKeepStart(frameStart, frameExtent, extent) ==
    IF frameExtent > extent THEN <<frameStart, extent>>
    ELSE IF frameStart + frameExtent > extent THEN <<extent - frameExtent, frameExtent>>
    ELSE IF frameStart < 0 THEN <<0, frameExtent>>
    ELSE <<frameStart, frameExtent>>

\* Variant of ClampAxis that leaves an oversized frame as wide as declared.
ClampAxisNoShrink(frameStart, frameExtent, extent) ==
    IF frameExtent > extent THEN <<0, frameExtent>>
    ELSE IF frameStart + frameExtent > extent THEN <<extent - frameExtent, frameExtent>>
    ELSE IF frameStart < 0 THEN <<0, frameExtent>>
    ELSE <<frameStart, frameExtent>>

\* Variant of ClampAxis that moves every frame flush against the far edge.
ClampAxisAlwaysFlush(frameStart, frameExtent, extent) ==
    IF frameExtent > extent THEN <<0, extent>>
    ELSE <<extent - frameExtent, frameExtent>>

ClampAxis(frameStart, frameExtent, extent) ==
    IF frameExtent > extent THEN <<0, extent>>
    ELSE IF frameStart + frameExtent > extent THEN <<extent - frameExtent, frameExtent>>
    ELSE IF frameStart < 0 THEN <<0, frameExtent>>
    ELSE <<frameStart, frameExtent>>

\* Variant of setFrameDimensions without the check of the declared size.
setFrameDimensionsNoReject(desc, inf, oldDims, oldIsSubset) ==
    LET h == ClampAxis(desc.Left, desc.Width, inf.width)
        v == ClampAxis(desc.Top, desc.Height, inf.height)
        dims == setXYWH(h[1], v[1], h[2], v[2])
    IN  [ok |-> TRUE,
         fFrameDims |-> dims,
         fFrameIsSubset |->
             IF inf.width # RectWidth(dims) \/ inf.height # RectHeight(dims)
             THEN TRUE
             ELSE oldIsSubset]

\* Returns [ok, fFrameDims, fFrameIsSubset]: the return value and the two
\* fields as the call leaves them.
setFrameDimensions(desc, inf, oldDims, oldIsSubset) ==
    IF desc.Width <= 0 \/ desc.Height <= 0
    THEN [ok |-> FALSE, fFrameDims |-> oldDims, fFrameIsSubset |-> oldIsSubset]
    ELSE LET h == ClampAxis(desc.Left, desc.Width, inf.width)
             v == ClampAxis(desc.Top, desc.Height, inf.height)
             dims == setXYWH(h[1], v[1], h[2], v[2])
         IN  [ok |-> TRUE,
              fFrameDims |-> dims,
              fFrameIsSubset |->
                  IF inf.width # RectWidth(dims) \/ inf.height # RectHeight(dims)
                  THEN TRUE
                  ELSE oldIsSubset]

-----------------------------------------------------------------------------
(* Colour table.  A colour is the 32-bit pattern of an SkPMColor read as a  *)
(* signed integer (alpha in the top byte).  A ColorMapObject is             *)
(* [present, ColorCount, tag]; its entry i has the fixed components given   *)
(* by Colors.                                                               *)
(* fColorTable is kept as what the 256 entries were built from, [set,       *)
(* colorMap, colorCount, transIdx, fillIndex, stackWord]: nothing writes    *)
(* the table after initializeColorTable built it, and ColorTableColors      *)
(* gives the 256 entries it holds.                                          *)

NoColorMap == [present |-> FALSE, ColorCount |-> 0, tag |-> 0]

Colors(colorMap, i) == [Red |-> i, Green |-> colorMap.tag, Blue |-> 255 - i]

SkPackARGB32(a, r, g, b) ==
    (IF a < 128 THEN a ELSE a - 256) * 16777216 + (r * 256 + g) * 256 + b

\* Words an uninitialized stack slot may hold.
UninitWords == {0, 305419896}

ActiveColorMap(gifv) ==
    IF gifv.Image.ColorMap.present THEN gifv.Image.ColorMap ELSE gifv.SColorMap

ResolveFillIndexNoBackground(transIdx, backgroundIndex, colorCount, oldFill) ==
    IF transIdx < colorCount THEN transIdx ELSE oldFill

ResolveFillIndex(transIdx, backgroundIndex, colorCount, oldFill) ==
    IF transIdx < colorCount THEN transIdx
    ELSE IF backgroundIndex < colorCount THEN backgroundIndex
    ELSE oldFill

\* colorPtr after the palette copy and the transparent mark; stackWord is
\* what the uninitialized local array held.
PaletteCopyNoMark(colorMap, colorCount, transIdx, stackWord) ==
    [i \in 0..(maxColors - 1) |->
        IF i < colorCount
        THEN SkPackARGB32(255, Colors(colorMap, i).Red,
                          Colors(colorMap, i).Green, Colors(colorMap, i).Blue)
        ELSE stackWord]

PaletteCopy(colorMap, colorCount, transIdx, stackWord) ==
    [i \in 0..(maxColors - 1) |->
        IF transIdx < colorCount /\ i = transIdx
        THEN SK_ColorTRANSPARENT
        ELSE IF i < colorCount
        THEN SkPackARGB32(255, Colors(colorMap, i).Red,
                          Colors(colorMap, i).Green, Colors(colorMap, i).Blue)
        ELSE stackWord]

\* The loop "for i = colorCount .. maxColors-1: colorPtr[i] = colorPtr[fFillIndex]".
\* When fFillIndex >= colorCount the slot at fFillIndex is copied onto itself
\* and onto every other slot of the range, so every slot of the range ends
\* up with the value colorPtr[fFillIndex] held before the loop.
FillUnsetNone(colorPtr, colorCount, fillIndex) == colorPtr

FillUnset(colorPtr, colorCount, fillIndex) ==
    [i \in 0..(maxColors - 1) |->
        IF i >= colorCount THEN colorPtr[fillIndex] ELSE colorPtr[i]]

\* The slots whose final value comes from the uninitialized array: the
\* slots >= colorCount, when the slot they copy is itself one of them.
UndefinedSlots(colorCount, fillIndex) ==
    IF fillIndex >= colorCount THEN colorCount..(maxColors - 1) ELSE {}

\* The 256 entries of a built table: the palette copy with the transparent
\* mark, then the fill of the slots >= colorCount.
ColorTableColors(t) ==
    FillUnset(PaletteCopy(t.colorMap, t.colorCount, t.transIdx, t.stackWord),
              t.colorCount, t.fillIndex)

\* The indices of a built table whose value was never written by the program.
ColorTableUndef(t) == UndefinedSlots(t.colorCount, t.fillIndex)

\* Returns [fFillIndex, fColorTable].
initializeColorTable(gifv, transIdx, oldFill, stackWord) ==
    LET colorMap == ActiveColorMap(gifv)
        colorCount == IF colorMap.present THEN colorMap.ColorCount ELSE 0
        fill == ResolveFillIndex(transIdx, gifv.SBackGroundColor, colorCount, oldFill)
    IN  [fFillIndex |-> fill,
         fColorTable |-> [set |-> TRUE, colorMap |-> colorMap,
                          colorCount |-> colorCount, transIdx |-> transIdx,
                          fillIndex |-> fill, stackWord |-> stackWord]]

NullColorTable ==
    [set |-> FALSE, colorMap |-> NoColorMap, colorCount |-> 0, transIdx |-> 0,
     fillIndex |-> 0, stackWord |-> 0]

-----------------------------------------------------------------------------
(* Destination memory, the fill primitive and the swizzler.                 *)

\* What the caller's buffer holds before the call.
Unwritten == 0 - 1

FreshBuffer(inf) == [a \in 0..(inf.width * inf.height - 1) |-> Unwritten]

\* Addresses of numRows rows of width pixels, the rows rowPixels apart.
RowAddrs(start, width, rowPixels, numRows) ==
    {start + r * rowPixels + c : r \in 0..(numRows - 1), c \in 0..(width - 1)}

\* SkSwizzler::Fill(dstStartRow, dstInfo, dstRowBytes, numRows, colorOrIndex,
\* colorTable): numRows rows of dstInfo.width() pixels from dstStartRow on,
\* each set to colorTable[colorOrIndex].
FillAddrs(dstStartRow, dstInfo, dstRowPixels, numRows) ==
    RowAddrs(dstStartRow, dstInfo.width, dstRowPixels, numRows)

Fill(mem, dstStartRow, dstInfo, dstRowPixels, numRows, colorOrIndex, colorTable) ==
    [a \in DOMAIN mem |->
        IF a \in FillAddrs(dstStartRow, dstInfo, dstRowPixels, numRows)
        THEN colorTable[colorOrIndex % maxColors]
        ELSE mem[a]]

\* fSwizzler->swizzle(dstRow, src): swizzler.width pixels from dstRow on,
\* pixel x set to the colour of palette index src[x].
SwizzleAddrs(swizzler, dstRow) == RowAddrs(dstRow, swizzler.width, 0, 1)

swizzle(mem, swizzler, dstRow, src, colorTable) ==
    [a \in DOMAIN mem |->
        IF a \in SwizzleAddrs(swizzler, dstRow)
        THEN colorTable[src[a - dstRow]]
        ELSE mem[a]]

NullSwizzler == [set |-> FALSE, width |-> 0]

\* The palette index the decompressor delivers for column x of encoded row r.
SrcIndex(r, x) == (16 * r + x) % maxColors

\* DGifGetLine(fGif, fSrcBuffer, len) on success: len indices of the next row.
DGifGetLine(buf, line, len) ==
    [x \in DOMAIN buf |-> IF x < len THEN SrcIndex(line, x) ELSE buf[x]]

\* A memset that ignores the value it is given and clears the buffer.
memset_zero(buf, value, len) ==
    [x \in DOMAIN buf |-> IF x < len THEN 0 ELSE buf[x]]

\* memset(fSrcBuffer, fFillIndex, width)
memset(buf, value, len) ==
    [x \in DOMAIN buf |-> IF x < len THEN value % 256 ELSE buf[x]]

UninitByte == 0 - 1

-----------------------------------------------------------------------------
(* Values the harnesses leave alone *)

NoGif ==
    [Image |-> [Left |-> 0, Top |-> 0, Width |-> 1, Height |-> 1,
                Interlace |-> FALSE, ColorMap |-> NoColorMap],
     SColorMap |-> NoColorMap,
     SBackGroundColor |-> 0]

EmptySavedImage == [ExtensionBlockCount |-> 0, ExtensionBlocks |-> <<>>]

\* What a ReadHeader call did: whether it returned, what it returned, whether
\* it made a codec, the screen size the parser reported and whether it was
\* called to make a codec (codecOut # nullptr) or to re-open for a rewind.
NoHeader ==
    [returned |-> FALSE, ok |-> FALSE, codec |-> FALSE,
     SWidth |-> 0, SHeight |-> 0, codecOut |-> FALSE]

IlNone == ilHeight = 0 /\ ilRow = 0 /\ ilOut = <<>>

ScanNone ==
    /\ parserLog = <<>>
    /\ saveExt = EmptySavedImage
    /\ scanPc = "off"
    /\ scanResult = "none"
    /\ transIndex = 0 - 1
    /\ header = NoHeader

\* A request that passes every check made before the frame is resolved.
PlainRequest ==
    [fSubset |-> FALSE, conversionOk |-> TRUE, dimsMatch |-> TRUE,
     swizzlerOk |-> TRUE, rewindOk |-> TRUE]

\* SkGifCodec::SkGifCodec: the fields as the constructor leaves them.
Constructed(inf, gifv, transIdx, where) ==
    /\ info = inf
    /\ gif = gifv
    /\ gifLine = 0
    /\ fTransIndex = transIdx
    /\ fFillIndex = 0
    /\ fFrameDims = MakeEmpty
    /\ fFrameIsSubset = FALSE
    /\ fColorTable = NullColorTable
    /\ fSwizzler = NullSwizzler
    /\ fSrcBuffer = [x \in 0..(inf.width - 1) |-> UninitByte]
    /\ dst = FreshBuffer(inf)
    /\ written = {}
    /\ dstPtr = 0
    /\ pc = where
    /\ y = 0
    /\ result = "none"
    /\ rowLog = <<>>
    /\ fNeedsRewind = FALSE
    /\ opts = PlainRequest
    /\ fCurrScanline = 0

CodecNone == Constructed([width |-> 1, height |-> 1], NoGif, SK_MaxU32, "off")

\* No fill-rect op.
NoOp == [made |-> FALSE, fQuads |-> <<>>, aaType |-> "kNone", fColorType |-> 0 - 1,
         bounds |-> [rect |-> {}, aaBloat |-> FALSE]]

NoCall == [fn |-> "none", ret |-> "none", count |-> 0]

OpNone ==
    /\ draw = [quads |-> <<>>, aaType |-> "kNone"]
    /\ addOps = [pc |-> "off", offset |-> 0, numLeft |-> 0, ops |-> <<>>]
    /\ fillRects = NoOp
    /\ thatOp = NoOp
    /\ opCall = NoCall

-----------------------------------------------------------------------------
(* Interlace mapping harness: maps encoded rows 0, 1, ... of one frame.     *)

InitInterlace ==
    /\ ilHeight \in 1..MaxInterlaceHeight
    /\ ilRow = 0
    /\ ilOut = <<>>
    /\ ScanNone
    /\ CodecNone
    /\ OpNone

InterlaceStep ==
    /\ ilRow < ilHeight
    /\ ilOut' = Append(ilOut, get_output_row_interlaced(ilRow, ilHeight))
    /\ ilRow' = ilRow + 1
    /\ UNCHANGED <<ilHeight, scanVars, codecVars, opVars>>

NextInterlace == InterlaceStep

SpecInterlace == InitInterlace /\ [][NextInterlace]_vars

\* C3: for every frame height h >= 1 the interlace mapping sends the encoded
\* rows [0,h) one-to-one onto the output rows [0,h): every result is below h,
\* no two encoded rows share an output row, and once all h rows are mapped
\* every output row has been produced.
C3_InterlaceBijection ==
    /\ \A i \in 1..Len(ilOut) : ilOut[i] \in 0..(ilHeight - 1)
    /\ \A i, j \in 1..Len(ilOut) : ilOut[i] = ilOut[j] => i = j
    /\ ilRow = ilHeight /\ ilHeight > 0 =>
           {ilOut[i] : i \in 1..Len(ilOut)} = 0..(ilHeight - 1)

C3_Witness == ilHeight = 9 /\ ilRow = ilHeight /\ ilOut[3] = 4 /\ ilOut[4] = 2

\* The rows start, start + stride, start + 2 * stride, ... below h, ascending.
PassRows(start, stride, h) ==
    [k \in 1..(IF h > start THEN (h - start + stride - 1) \div stride ELSE 0) |->
        start + stride * (k - 1)]

\* The four GIF passes of a frame of height h, one after the other.
FourPasses(h) ==
    PassRows(0, 8, h) \o PassRows(4, 8, h) \o PassRows(2, 4, h) \o PassRows(1, 2, h)

\* The least integer >= a / b.
CeilOf(a, b) == CHOOSE q \in 0..a : q * b >= a /\ (q - 1) * b < a

\* The pass of encoded row r by the thresholds ceil(h/8), ceil(h/4), ceil(h/2).
PassByThreshold(r, h) ==
    IF r < CeilOf(h, 8) THEN 1
    ELSE IF r < CeilOf(h, 4) THEN 2
    ELSE IF r < CeilOf(h, 2) THEN 3
    ELSE 4

\* The pass an output row belongs to.
PassOfOutputRow(row) ==
    IF row % 8 = 0 THEN 1
    ELSE IF row % 8 = 4 THEN 2
    ELSE IF row % 4 = 2 THEN 3
    ELSE 4

\* C22: for every frame height h >= 1 the output rows of the encoded rows
\* 0, 1, ..., h-1 are the four GIF passes in order (rows 0, 8, 16, ...; then
\* 4, 12, 20, ...; then 2, 6, 10, ...; then 1, 3, 5, ...; each ascending and
\* below h), and encoded row r is in pass 1 iff r < ceil(h/8), in pass 2 iff
\* ceil(h/8) <= r < ceil(h/4), in pass 3 iff ceil(h/4) <= r < ceil(h/2),
\* else in pass 4.
C22_FourPassesInOrder ==
    /\ ilOut = SubSeq(FourPasses(ilHeight), 1, Len(ilOut))
    /\ ilRow = ilHeight => ilOut = FourPasses(ilHeight)
    /\ \A i \in 1..Len(ilOut) :
           PassOfOutputRow(ilOut[i]) = PassByThreshold(i - 1, ilHeight)

\* All rows of a frame of height 17 are mapped: three rows in the first
\* pass, two in the second, four in the third and eight in the fourth.
C22_Witness ==
    /\ ilHeight = 17
    /\ ilRow = ilHeight
    /\ ilOut = <<0, 8, 16, 4, 12, 2, 6, 10, 14, 1, 3, 5, 7, 9, 11, 13, 15>>

-----------------------------------------------------------------------------
(* Header scan: ReadUpToFirstImage, one action per iteration of its loop,   *)
(* named after the record type the parser returns.                          *)

\* Payloads a sub-block may carry (Bytes[1] is the C byte 0).
Payloads == {<<1, 0, 0, 5>>, <<0, 0, 0, 7>>, <<3, 0, 9>>, <<5, 0, 0, 9, 0>>}

ExtFunctions == {GRAPHICS_EXT_FUNC_CODE, 255}

RECURSIVE SeqsUpTo(_, _)
SeqsUpTo(S, n) ==
    IF n = 0 THEN {<<>>}
    ELSE LET shorter == SeqsUpTo(S, n - 1) IN
         shorter \cup {Append(q, e) : q \in shorter, e \in S}

\* GifAddExtensionBlock(&count, &blocks, function, extData[0], &extData[1])
GifAddExtensionBlock(image, function, bytes) ==
    [ExtensionBlockCount |-> image.ExtensionBlockCount + 1,
     ExtensionBlocks |-> Append(image.ExtensionBlocks,
                                [Function |-> function, ByteCount |-> Len(bytes),
                                 Bytes |-> bytes])]

RECURSIVE AddBlocks(_, _, _)
AddBlocks(image, function, payloads) ==
    IF payloads = <<>> THEN image
    ELSE AddBlocks(GifAddExtensionBlock(image, function, Head(payloads)),
                   function, Tail(payloads))

InitScan ==
    /\ parserLog = <<>>
    /\ saveExt = EmptySavedImage
    /\ scanPc = "scanning"
    /\ scanResult = "none"
    /\ transIndex = 0 - 1
    /\ header = NoHeader
    /\ IlNone
    /\ OpNone
    /\ CodecNone

ScanReturn(res) ==
    /\ scanResult' = res
    /\ scanPc' = "done"
    /\ saveExt' = EmptySavedImage

\* DGifGetRecordType returns GIF_ERROR.
ScanError ==
    /\ scanPc = "scanning"
    /\ Len(parserLog) < MaxRecords
    /\ parserLog' = Append(parserLog, [type |-> "ERROR"])
    /\ ScanReturn("InvalidInput")
    /\ UNCHANGED <<transIndex, header, ilVars, codecVars, opVars>>

\* Variant of ScanImageDesc that notes the image and goes on scanning.
ScanImageDescKeepScanning ==
    /\ scanPc = "scanning"
    /\ Len(parserLog) < MaxRecords
    /\ parserLog' = Append(parserLog, [type |-> "IMAGE_DESC"])
    /\ transIndex' = find_trans_index(saveExt)
    /\ scanResult' = "Success"
    /\ UNCHANGED <<saveExt, scanPc, header, ilVars, codecVars, opVars>>

\* case IMAGE_DESC_RECORD_TYPE
ScanImageDesc ==
    /\ scanPc = "scanning"
    /\ Len(parserLog) < MaxRecords
    /\ parserLog' = Append(parserLog, [type |-> "IMAGE_DESC"])
    /\ transIndex' = find_trans_index(saveExt)
    /\ ScanReturn("Success")
    /\ UNCHANGED <<header, ilVars, codecVars, opVars>>

\* case EXTENSION_RECORD_TYPE: the parser hands over the extension's function
\* code and sub-blocks, and the fetches end as "end" says: "ok" (the
\* terminating NULL arrived), "getExtension" (DGifGetExtension failed),
\* "addBlock" (GifAddExtensionBlock failed on the last sub-block) or
\* "getNext" (DGifGetExtensionNext failed after the last sub-block).
ScanExtension ==
    /\ scanPc = "scanning"
    /\ Len(parserLog) < MaxRecords
    /\ \E function \in ExtFunctions,
          payloads \in SeqsUpTo(Payloads, MaxBlocks - saveExt.ExtensionBlockCount),
          end \in {"ok", "getExtension", "addBlock", "getNext"} :
          /\ end = "getExtension" => payloads = <<>>
          /\ end \in {"addBlock", "getNext"} => payloads # <<>>
          /\ parserLog' = Append(parserLog,
                 [type |-> "EXTENSION", Function |-> function,
                  payloads |-> payloads, end |-> end])
          /\ IF end = "ok"
             THEN /\ saveExt' = AddBlocks(saveExt, function, payloads)
                  /\ UNCHANGED <<scanPc, scanResult>>
             ELSE ScanReturn("IncompleteInput")
    /\ UNCHANGED <<transIndex, header, ilVars, codecVars, opVars>>

\* Variant of ScanTerminate that reports the end of the stream as success.
ScanTerminateSuccess ==
    /\ scanPc = "scanning"
    /\ Len(parserLog) < MaxRecords
    /\ parserLog' = Append(parserLog, [type |-> "TERMINATE"])
    /\ ScanReturn("Success")
    /\ UNCHANGED <<transIndex, header, ilVars, codecVars, opVars>>

\* case TERMINATE_RECORD_TYPE: the loop ends and no image was found.
ScanTerminate ==
    /\ scanPc = "scanning"
    /\ Len(parserLog) < MaxRecords
    /\ parserLog' = Append(parserLog, [type |-> "TERMINATE"])
    /\ ScanReturn("InvalidInput")
    /\ UNCHANGED <<transIndex, header, ilVars, codecVars, opVars>>

\* Screen sizes the parser may report.
ScreenSizes == {0, 2}

\* What ReadHeader returns after ReadUpToFirstImage returned:
\* DGifGetImageDesc, then with codecOut the dimension check and the codec,
\* without it (onRewind) the gif handed back.
ReadHeaderReturn(imageDescOk, SWidth, SHeight, codecOut) ==
    IF scanResult # "Success" \/ ~imageDescOk
    THEN [returned |-> TRUE, ok |-> FALSE, codec |-> FALSE,
          SWidth |-> SWidth, SHeight |-> SHeight, codecOut |-> codecOut]
    ELSE IF codecOut
         THEN IF SWidth <= 0 \/ SHeight <= 0
              THEN [returned |-> TRUE, ok |-> FALSE, codec |-> FALSE,
                    SWidth |-> SWidth, SHeight |-> SHeight, codecOut |-> codecOut]
              ELSE [returned |-> TRUE, ok |-> TRUE, codec |-> TRUE,
                    SWidth |-> SWidth, SHeight |-> SHeight, codecOut |-> codecOut]
         ELSE [returned |-> TRUE, ok |-> TRUE, codec |-> FALSE,
               SWidth |-> SWidth, SHeight |-> SHeight, codecOut |-> codecOut]

\* ReadHeader after ReadUpToFirstImage returned, called by NewFromStream
\* (codecOut # nullptr) or by onRewind (codecOut = nullptr).  The reported
\* screen size is told apart only where the call gets to look at it.
ReadHeaderFinish ==
    /\ scanPc = "done"
    /\ ~header.returned
    /\ \E imageDescOk \in BOOLEAN, SWidth \in ScreenSizes, SHeight \in ScreenSizes,
          codecOut \in BOOLEAN :
          /\ (scanResult # "Success" \/ ~imageDescOk) => (SWidth = 2 /\ SHeight = 2)
          /\ header' = ReadHeaderReturn(imageDescOk, SWidth, SHeight, codecOut)
    /\ UNCHANGED <<parserLog, saveExt, scanPc, scanResult, transIndex, ilVars, codecVars, opVars>>

NextScan ==
    \/ ScanError
    \/ ScanImageDesc
    \/ ScanExtension
    \/ ScanTerminate
    \/ ReadHeaderFinish

SpecScan == InitScan /\ [][NextScan]_vars

\* The extension blocks that arrived and were added, in arrival order.
RECURSIVE ArrivedBlocks(_)
ArrivedBlocks(log) ==
    IF log = <<>> THEN <<>>
    ELSE LET rec == log[Len(log)]
             before == ArrivedBlocks(SubSeq(log, 1, Len(log) - 1))
         IN  IF rec.type = "EXTENSION"
             THEN before \o [i \in 1..Len(rec.payloads) |->
                                [Function |-> rec.Function, Bytes |-> rec.payloads[i]]]
             ELSE before

TransparencyBearing(b) == b.Function = GRAPHICS_EXT_FUNC_CODE /\ Len(b.Bytes) >= 4

Bit0(byte) == byte % 2

\* C9: the transparency index the header scan produces is decided only by
\* the most recently arrived block of graphics-control kind with at least 4
\* payload bytes: its byte 3 if bit 0 of its byte 0 is set, otherwise none
\* (a sentinel above 255); with no such block it is none.
C9_TransIndexFromLastGraphicsControl ==
    scanResult = "Success" =>
        LET blocks == ArrivedBlocks(parserLog)
            bearing == {i \in 1..Len(blocks) : TransparencyBearing(blocks[i])}
        IN  /\ bearing = {} => transIndex = SK_MaxU32
            /\ bearing # {} =>
                   LET last == CHOOSE i \in bearing : \A j \in bearing : j <= i
                   IN  transIndex = IF Bit0(blocks[last].Bytes[1]) = 1
                                    THEN blocks[last].Bytes[4]
                                    ELSE SK_MaxU32
            /\ transIndex \in 0..255 \/ (transIndex = SK_MaxU32 /\ transIndex > 255)

\* A graphics-control block with its flag set arrived, then one with the flag
\* clear, and the scan succeeded.
C9_Witness ==
    /\ scanResult = "Success"
    /\ transIndex = SK_MaxU32
    /\ LET blocks == ArrivedBlocks(parserLog) IN
       /\ Len(blocks) >= 2
       /\ \E i, j \in 1..Len(blocks) :
              /\ i < j
              /\ TransparencyBearing(blocks[i]) /\ Bit0(blocks[i].Bytes[1]) = 1
              /\ TransparencyBearing(blocks[j]) /\ Bit0(blocks[j].Bytes[1]) = 0

SavedImageOf(blocks) ==
    [ExtensionBlockCount |-> Len(blocks),
     ExtensionBlocks |-> [i \in 1..Len(blocks) |->
                            [Function |-> blocks[i].Function,
                             ByteCount |-> Len(blocks[i].Bytes),
                             Bytes |-> blocks[i].Bytes]]]

ImagePositions(log) == {i \in 1..Len(log) : log[i].type = "IMAGE_DESC"}

\* C10: first image wins.  The scan returns success exactly at the first
\* image-descriptor record, the transparency index is the one computed from
\* the blocks that arrived before that record, and once the scan has
\* returned no further record type or sub-block is fetched from the parser.
C10_FirstImageWins ==
    /\ [](scanResult = "Success" =>
            /\ scanPc = "done"
            /\ ImagePositions(parserLog) = {Len(parserLog)}
            /\ transIndex =
                   find_trans_index(SavedImageOf(ArrivedBlocks(
                       SubSeq(parserLog, 1, Len(parserLog) - 1)))))
    /\ [][scanPc = "done" => parserLog' = parserLog]_vars

\* The scan succeeded after at least one extension record that set a
\* transparency index, and ReadHeader went on after it.
C10_Witness ==
    /\ scanResult = "Success"
    /\ header.returned
    /\ Len(parserLog) >= 2
    /\ transIndex \in 0..255

\* C11: a parser error on the record type, or the terminate record before any
\* image descriptor, ends the scan with InvalidInput and ReadHeader makes no
\* codec; a failed fetch of an extension or of one of its sub-blocks ends the
\* scan with IncompleteInput (and no codec either).
C11_ScanFailures ==
    \A i \in 1..Len(parserLog) :
        /\ parserLog[i].type \in {"ERROR", "TERMINATE"} =>
               /\ i = Len(parserLog)
               /\ scanPc = "done"
               /\ scanResult = "InvalidInput"
               /\ header.returned => (~header.ok /\ ~header.codec)
        /\ (parserLog[i].type = "EXTENSION" /\ parserLog[i].end # "ok") =>
               /\ i = Len(parserLog)
               /\ scanPc = "done"
               /\ scanResult = "IncompleteInput"
               /\ header.returned => (~header.ok /\ ~header.codec)

\* An extension arrived, then the terminate record, and NewFromStream came
\* back without a codec.
C11_Witness ==
    /\ Len(parserLog) = 2
    /\ parserLog[1].type = "EXTENSION"
    /\ parserLog[2].type = "TERMINATE"
    /\ header.returned
    /\ header.codecOut
    /\ ~header.codec

\* C12: ReadHeader never returns success when the screen width or height the
\* parser reported is not positive, called for a new codec or for a rewind.
C12_NonPositiveScreenFails ==
    (header.returned /\ (header.SWidth <= 0 \/ header.SHeight <= 0)) => ~header.ok

-----------------------------------------------------------------------------
(* Colour table harness: initializeColorTable on a constructed codec, over  *)
(* the palettes and indices giflib can deliver.                             *)

ColorMapOf(count, tag) ==
    IF count = 0 THEN NoColorMap
    ELSE [present |-> TRUE, ColorCount |-> count, tag |-> tag]

LocalTag == 1

GlobalTag == 2

\* ColorCount is 1 << BitsPerPixel; 0 stands for "no colour map".
LocalColorCounts == {0, 2, 4}

GlobalColorCounts == {0, 2, 8, 256}

\* What find_trans_index can return: a byte, or SK_MaxU32.
TransIndexValues == {0, 1, 3, 7, 200, 255, SK_MaxU32}

BackgroundValues == {0, 1, 5, 255}

GifOf(desc, interlace, localCount, globalCount, background) ==
    [Image |-> [Left |-> desc[1], Top |-> desc[2], Width |-> desc[3],
                Height |-> desc[4], Interlace |-> interlace,
                ColorMap |-> ColorMapOf(localCount, LocalTag)],
     SColorMap |-> ColorMapOf(globalCount, GlobalTag),
     SBackGroundColor |-> background]

InitColor ==
    /\ \E localCount \in LocalColorCounts, globalCount \in GlobalColorCounts,
          transIdx \in TransIndexValues, background \in BackgroundValues :
          Constructed([width |-> 1, height |-> 1],
                      GifOf(<<0, 0, 1, 1>>, FALSE, localCount, globalCount, background),
                      transIdx, "color")
    /\ IlNone
    /\ OpNone
    /\ ScanNone

\* One decode session's call of initializeColorTable.
InitializeColorTableCall ==
    /\ pc = "color"
    /\ \E stackWord \in UninitWords :
          \E r \in {initializeColorTable(gif, fTransIndex, fFillIndex, stackWord)} :
              /\ fFillIndex' = r.fFillIndex
              /\ fColorTable' = r.fColorTable
    /\ fNeedsRewind' = TRUE
    /\ UNCHANGED <<info, gif, gifLine, fTransIndex, fFrameDims, fFrameIsSubset,
                   fSwizzler, fSrcBuffer, dst, written, dstPtr, pc, y, result, rowLog,
                   fCurrScanline, opts, ilVars, scanVars, opVars>>

NextColor == InitializeColorTableCall

SpecColor == InitColor /\ [][NextColor]_vars

ColorCount == IF ActiveColorMap(gif).present THEN ActiveColorMap(gif).ColorCount ELSE 0

TableIndices == 0..(maxColors - 1)

IsTransparent(c) == c = SK_ColorTRANSPARENT

\* C4: after initializeColorTable every one of the 256 entries holds a
\* defined colour (written from a palette entry, the transparent marker or a
\* copy of a defined entry), and with no palette at all the 256 entries all
\* equal the defined fill colour.
C4_AllEntriesDefined ==
    fColorTable.set =>
        /\ ColorTableUndef(fColorTable) = {}
        /\ ColorCount = 0 =>
               \A i \in TableIndices :
                   ColorTableColors(fColorTable)[i] = ColorTableColors(fColorTable)[fFillIndex]

Reopen ==
    /\ pc = "color"
    /\ fColorTable.set
    /\ \E localCount \in LocalColorCounts, globalCount \in GlobalColorCounts,
          background \in BackgroundValues :
          gif' = GifOf(<<0, 0, 1, 1>>, FALSE, localCount, globalCount, background)
    /\ UNCHANGED <<info, gifLine, fTransIndex, fFillIndex, fFrameDims, fFrameIsSubset,
                   fColorTable, fSwizzler, fSrcBuffer, dst, written, dstPtr, pc, y,
                   result, rowLog, fNeedsRewind, fCurrScanline, opts, ilVars, scanVars, opVars>>

NextColorRewind ==
    \/ InitializeColorTableCall
    \/ Reopen

SpecColorRewind == InitColor /\ [][NextColorRewind]_vars

\* The fill index by the preference order.
PreferredFillIndex ==
    IF fTransIndex < ColorCount THEN fTransIndex
    ELSE IF gif.SBackGroundColor < ColorCount THEN gif.SBackGroundColor
    ELSE 0

\* C18: in every session of a codec, the first and those after a rewind,
\* initializeColorTable resolves the fill index to the transparency index if
\* it is below the active palette's colour count, else to the background
\* index if that is below it, else to 0.  (The steps that leave gif alone are
\* the calls of initializeColorTable.)
C18_FillIndexPreference ==
    [][gif' = gif => fFillIndex' = PreferredFillIndex]_vars

\* The opaque colour of entry i of a palette.
OpaqueColor(colorMap, i) ==
    SkPackARGB32(255, Colors(colorMap, i).Red, Colors(colorMap, i).Green,
                 Colors(colorMap, i).Blue)

\* C19: in a built table every entry at an index >= the palette's colour
\* count equals the entry at the resolved fill index, and every entry at an
\* index below the colour count, the valid transparency index apart, is the
\* opaque colour of the palette entry at that index; so each of the 256
\* indices resolves to a palette colour or to the fill colour.
C19_TableContents ==
    fColorTable.set =>
        LET table == ColorTableColors(fColorTable)
            count == fColorTable.colorCount
            validTrans == fColorTable.transIdx < count
        IN  /\ \A i \in TableIndices :
                   IF i >= count
                   THEN table[i] = table[fFillIndex]
                   ELSE (validTrans /\ i = fColorTable.transIdx)
                        \/ table[i] = OpaqueColor(fColorTable.colorMap, i)
            /\ \A i \in TableIndices :
                   \/ table[i] = table[fFillIndex]
                   \/ i < count /\ table[i] = OpaqueColor(fColorTable.colorMap, i)

\* A table built from a palette of 2 colours with no valid transparency
\* index and the background index 1 as fill index: entry 0 is its palette
\* colour, entries 2..255 are copies of entry 1.
C19_Witness ==
    /\ fColorTable.set
    /\ fColorTable.colorCount = 2
    /\ fColorTable.transIdx >= 2
    /\ fFillIndex = 1
    /\ ColorTableColors(fColorTable)[0] = OpaqueColor(fColorTable.colorMap, 0)
    /\ ColorTableColors(fColorTable)[200] = OpaqueColor(fColorTable.colorMap, 1)

-----------------------------------------------------------------------------
(* prepareToDecode and the requests it is called with.                      *)

\* A decode request: the sub-rectangle option, whether conversion_possible
\* holds for the destination, whether the destination dimensions equal the
\* image dimensions, whether a swizzler can be created, and whether the
\* stream can be rewound.  At most one of them is unfavourable.
Requests ==
    {r \in [fSubset : BOOLEAN, conversionOk : BOOLEAN, dimsMatch : BOOLEAN,
            swizzlerOk : BOOLEAN, rewindOk : BOOLEAN] :
        Cardinality({f \in {"conversionOk", "dimsMatch", "swizzlerOk", "rewindOk"} : ~r[f]})
            + (IF r.fSubset THEN 1 ELSE 0) <= 1}

\* The requests of a session.  Whether the stream can be rewound is asked
\* only once a decode has been started before; the other checks do not
\* depend on the session, and the sessions after the first run with a plain
\* request or with a stream that cannot be rewound.
SessionRequests ==
    IF fNeedsRewind
    THEN {r \in Requests : r = PlainRequest \/ ~r.rewindOk}
    ELSE {r \in Requests : r.rewindOk}

\* Palettes and indices the decode harnesses run with.
ColorScenarios ==
    {[local |-> 0, global |-> 256, background |-> 2, trans |-> SK_MaxU32],
     [local |-> 0, global |-> 256, background |-> 0, trans |-> 17],
     [local |-> 4, global |-> 256, background |-> 7, trans |-> 200],
     [local |-> 0, global |-> 0, background |-> 0, trans |-> SK_MaxU32]}

\* The uninitialized stack word matters only when no palette entry exists.
StackWords == IF ColorCount = 0 THEN UninitWords ELSE {SK_ColorTRANSPARENT}

Unprepared(res, line) ==
    [result |-> res, gifLine |-> line, fFrameDims |-> fFrameDims,
     fFrameIsSubset |-> fFrameIsSubset, fFillIndex |-> fFillIndex,
     fColorTable |-> fColorTable]

\* Variant of prepareToDecode that does not look at the sub-rectangle option.
prepareToDecodeAnySubset(req, stackWord) ==
    IF fNeedsRewind /\ ~req.rewindOk THEN Unprepared("CouldNotRewind", gifLine)
    ELSE IF ~req.conversionOk THEN Unprepared("InvalidConversion", 0)
    ELSE LET g == setFrameDimensions(gif.Image, info, fFrameDims, fFrameIsSubset) IN
         IF ~g.ok THEN Unprepared("InvalidInput", 0)
         ELSE LET c == initializeColorTable(gif, fTransIndex, fFillIndex, stackWord) IN
              [result |-> "Success", gifLine |-> 0, fFrameDims |-> g.fFrameDims,
               fFrameIsSubset |-> g.fFrameIsSubset, fFillIndex |-> c.fFillIndex,
               fColorTable |-> c.fColorTable]

\* prepareToDecode: its Result and the fields as it leaves them.  A session
\* after the first rewinds: the parser is re-opened on the same stream and
\* the decompressor starts over at row 0.
prepareToDecode(req, stackWord) ==
    IF fNeedsRewind /\ ~req.rewindOk THEN Unprepared("CouldNotRewind", gifLine)
    ELSE IF req.fSubset THEN Unprepared("Unimplemented", 0)
    ELSE IF ~req.conversionOk THEN Unprepared("InvalidConversion", 0)
    ELSE LET g == setFrameDimensions(gif.Image, info, fFrameDims, fFrameIsSubset) IN
         IF ~g.ok THEN Unprepared("InvalidInput", 0)
         ELSE LET c == initializeColorTable(gif, fTransIndex, fFillIndex, stackWord) IN
              [result |-> "Success", gifLine |-> 0, fFrameDims |-> g.fFrameDims,
               fFrameIsSubset |-> g.fFrameIsSubset, fFillIndex |-> c.fFillIndex,
               fColorTable |-> c.fColorTable]

-----------------------------------------------------------------------------
(* Geometry harness: setFrameDimensions of a declared rectangle against a   *)
(* canvas.                                                                  *)

InitGeom ==
    /\ \E w \in 1..MaxGeomCanvas, h \in 1..MaxGeomCanvas,
          left \in (0 - 2)..(MaxGeomCanvas + 1), top \in (0 - 2)..(MaxGeomCanvas + 1),
          width \in 0..(MaxGeomCanvas + 2), height \in 0..(MaxGeomCanvas + 2) :
          Constructed([width |-> w, height |-> h],
                      GifOf(<<left, top, width, height>>, FALSE, 0, 2, 0),
                      SK_MaxU32, "geom")
    /\ IlNone
    /\ OpNone
    /\ ScanNone

SetFrameDimensionsCall ==
    /\ pc = "geom"
    /\ LET r == setFrameDimensions(gif.Image, info, fFrameDims, fFrameIsSubset) IN
       /\ fFrameDims' = r.fFrameDims
       /\ fFrameIsSubset' = r.fFrameIsSubset
       /\ result' = IF r.ok THEN "true" ELSE "false"
    /\ fNeedsRewind' = TRUE
    /\ UNCHANGED <<info, gif, gifLine, fTransIndex, fFillIndex, fColorTable,
                   fSwizzler, fSrcBuffer, dst, written, dstPtr, pc, y, rowLog,
                   fCurrScanline, opts, ilVars, scanVars, opVars>>

\* prepareToDecode of a plain request on the declared rectangle.
PrepareToDecodeCall ==
    /\ pc = "geom"
    /\ result = "none"
    /\ \E stackWord \in StackWords :
          \E p \in {prepareToDecode(PlainRequest, stackWord)} :
              /\ gifLine' = p.gifLine
              /\ fFrameDims' = p.fFrameDims
              /\ fFrameIsSubset' = p.fFrameIsSubset
              /\ fFillIndex' = p.fFillIndex
              /\ fColorTable' = p.fColorTable
              /\ result' = p.result
    /\ opts' = PlainRequest
    /\ fNeedsRewind' = TRUE
    /\ UNCHANGED <<info, gif, fTransIndex, fSwizzler, fSrcBuffer, dst, written,
                   dstPtr, pc, y, rowLog, fCurrScanline, ilVars, scanVars, opVars>>

\* The descriptor of a region.
DescOf(r, image) ==
    [image EXCEPT !.Left = r.fLeft, !.Top = r.fTop,
                  !.Width = RectWidth(r), !.Height = RectHeight(r)]

\* The rectangle a descriptor declares.
RectOf(desc) == setXYWH(desc.Left, desc.Top, desc.Width, desc.Height)

\* After a region was resolved the stream is opened again and declares the
\* region just resolved, the whole canvas, or a rectangle without width or
\* without height.
Redeclare ==
    /\ pc = "geom"
    /\ result \in {"true", "Success"}
    /\ \E image \in {DescOf(fFrameDims, gif.Image),
                      DescOf(setXYWH(0, 0, info.width, info.height), gif.Image),
                      [gif.Image EXCEPT !.Width = 0],
                      [gif.Image EXCEPT !.Height = 0 - 1]} :
          gif' = [gif EXCEPT !.Image = image]
    /\ result' = "none"
    /\ UNCHANGED <<info, gifLine, fTransIndex, fFillIndex, fFrameDims, fFrameIsSubset,
                   fColorTable, fSwizzler, fSrcBuffer, dst, written, dstPtr, pc, y,
                   rowLog, fNeedsRewind, fCurrScanline, opts, ilVars, scanVars, opVars>>

NextGeom ==
    \/ SetFrameDimensionsCall
    \/ PrepareToDecodeCall
    \/ Redeclare

SpecGeom == InitGeom /\ [][NextGeom]_vars

\* C8: for every declared rectangle of positive width and height, whatever
\* its left and top, and every positive canvas size, the region resolved by
\* setFrameDimensions lies inside the canvas.
C8_RegionInsideCanvas ==
    (result # "none" /\ gif.Image.Width > 0 /\ gif.Image.Height > 0) =>
        /\ result \in {"true", "Success"}
        /\ RectWidth(fFrameDims) > 0
        /\ RectHeight(fFrameDims) > 0
        /\ fFrameDims.fLeft >= 0
        /\ fFrameDims.fTop >= 0
        /\ fFrameDims.fLeft + RectWidth(fFrameDims) <= info.width
        /\ fFrameDims.fTop + RectHeight(fFrameDims) <= info.height

\* A rectangle that fits by size but hangs over the right edge and starts
\* above the canvas was resolved.
C8_Witness ==
    /\ result = "true"
    /\ gif.Image.Width <= info.width
    /\ gif.Image.Left + gif.Image.Width > info.width
    /\ gif.Image.Top < 0

\* The reference for one axis, <<start, extent>>, by the first rule that
\* matches, each rule written with the negation of those before it.
AxisReference(start, extent, canvasExtent) ==
    CASE extent > canvasExtent -> <<0, canvasExtent>>
      [] extent <= canvasExtent /\ start + extent > canvasExtent ->
             <<canvasExtent - extent, extent>>
      [] extent <= canvasExtent /\ start + extent <= canvasExtent /\ start < 0 ->
             <<0, extent>>
      [] OTHER -> <<start, extent>>

\* C20: for every declared rectangle of positive size setFrameDimensions
\* succeeds and resolves each axis by itself: width > canvas width gives
\* width = canvas width and left = 0; else left + width > canvas width gives
\* left = canvas width - width; else left < 0 gives left = 0; else the axis
\* is unchanged; the same for top and height against the canvas height.
C20_AxisReference ==
    (result # "none" /\ gif.Image.Width > 0 /\ gif.Image.Height > 0) =>
        LET h == AxisReference(gif.Image.Left, gif.Image.Width, info.width)
            v == AxisReference(gif.Image.Top, gif.Image.Height, info.height)
        IN  /\ result \in {"true", "Success"}
            /\ fFrameDims.fLeft = h[1]
            /\ RectWidth(fFrameDims) = h[2]
            /\ fFrameDims.fTop = v[1]
            /\ RectHeight(fFrameDims) = v[2]

\* A rectangle wider than the canvas that starts right of column 0, and that
\* fits by height but hangs over the bottom edge, was resolved: the first
\* rule on one axis, the second on the other.
C20_Witness ==
    /\ result = "true"
    /\ gif.Image.Width > info.width
    /\ gif.Image.Left > 0
    /\ gif.Image.Height < info.height
    /\ gif.Image.Top + gif.Image.Height > info.height
    /\ fFrameDims = setXYWH(0, info.height - gif.Image.Height, info.width,
                            gif.Image.Height)

\* The declared rectangle lies inside the canvas.
DeclaredInsideCanvas ==
    /\ gif.Image.Left >= 0
    /\ gif.Image.Top >= 0
    /\ gif.Image.Width > 0
    /\ gif.Image.Height > 0
    /\ gif.Image.Left + gif.Image.Width <= info.width
    /\ gif.Image.Top + gif.Image.Height <= info.height

\* A step that resolves the declared rectangle.
ResolveStep == result = "none" /\ result' # "none"

\* C13: a declared rectangle inside the canvas is resolved to itself, and
\* resolving the region resolved from any input again returns it unchanged.
C13_ClampIdempotent ==
    /\ []((result # "none" /\ DeclaredInsideCanvas) =>
            /\ result \in {"true", "Success"}
            /\ fFrameDims = RectOf(gif.Image))
    /\ [][(ResolveStep /\ fFrameDims # MakeEmpty /\ RectOf(gif.Image) = fFrameDims) =>
              /\ result' \in {"true", "Success"}
              /\ fFrameDims' = fFrameDims]_vars

\* A region flush against the right edge was resolved by prepareToDecode,
\* declared again and resolved to itself by setFrameDimensions.
C13_Witness ==
    /\ result = "true"
    /\ fFrameDims = RectOf(gif.Image)
    /\ fFrameDims.fLeft > 0
    /\ fFrameDims.fRight = info.width
    /\ fNeedsRewind
    /\ fFrameIsSubset
    /\ fColorTable.set

\* C21: after every successful resolution of the frame region, the first of
\* a codec or a later one, fFrameIsSubset is true exactly when the region
\* just resolved differs from the whole canvas.
C21_SubsetFlagExact ==
    result \in {"true", "Success"} =>
        (fFrameIsSubset <=>
            (RectWidth(fFrameDims) # info.width \/ RectHeight(fFrameDims) # info.height))

\* The declared frame has no width or no height.
DeclaredEmpty == gif.Image.Width <= 0 \/ gif.Image.Height <= 0

\* C14: a frame declared with width or height <= 0 is rejected:
\* setFrameDimensions returns false, prepareToDecode returns InvalidInput,
\* the stored region and isSubset flag stay as they were, no colour table is
\* built and no row is requested from the decompressor.
C14_EmptyFrameRejected ==
    /\ []((result # "none" /\ DeclaredEmpty) => result \in {"false", "InvalidInput"})
    /\ [][(ResolveStep /\ DeclaredEmpty) =>
              /\ fFrameDims' = fFrameDims
              /\ fFrameIsSubset' = fFrameIsSubset
              /\ fColorTable' = fColorTable
              /\ fFillIndex' = fFillIndex
              /\ gifLine' = gifLine
              /\ rowLog' = rowLog]_vars

\* A subset region was resolved and its table built, then a frame without
\* width was declared and prepareToDecode returned InvalidInput.
C14_Witness ==
    /\ result = "InvalidInput"
    /\ gif.Image.Width = 0
    /\ fFrameIsSubset
    /\ fFrameDims # MakeEmpty
    /\ fColorTable.set

-----------------------------------------------------------------------------
(* Decode sessions on a constructed codec.                                  *)

\* The background fill of a subset frame: the whole destination.
BackgroundFillNone(mem, isSubset, fillIndex, colorTable) == mem

BackgroundFill(mem, isSubset, fillIndex, colorTable) ==
    IF isSubset
    THEN Fill(mem, 0, info, info.width, info.height, fillIndex, colorTable)
    ELSE mem

\* dst moved to the frame's top-left corner (in pixels).
FrameOriginNoLeft(isSubset, dims) == IF isSubset THEN info.width * dims.fTop ELSE 0

FrameOrigin(isSubset, dims) ==
    IF isSubset THEN info.width * dims.fTop + dims.fLeft ELSE 0

SwizzlerFor(isSubset, dims) ==
    [set |-> TRUE, width |-> IF isSubset THEN RectWidth(dims) ELSE info.width]

InitCodec ==
    /\ \E w \in 1..MaxCanvasWidth, h \in 1..MaxCanvasHeight,
          interlace \in BOOLEAN, scen \in ColorScenarios :
          \E left \in 0..(w - 1), top \in 0..(h - 1) :
              \E width \in 0..(w - left + 1), height \in 0..(h - top + 1) :
                  Constructed([width |-> w, height |-> h],
                              GifOf(<<left, top, width, height>>, interlace,
                                    scen.local, scen.global, scen.background),
                              scen.trans, "idle")
    /\ IlNone
    /\ OpNone
    /\ ScanNone

\* onGetPixels up to its row loop.
GetPixelsBegin ==
    /\ pc \in {"idle", "returned"}
    /\ \E req \in SessionRequests, stackWord \in StackWords :
          \E p \in {prepareToDecode(req, stackWord)} :
          LET enter == p.result = "Success" /\ req.dimsMatch /\ req.swizzlerOk
          IN  /\ opts' = req
              /\ gifLine' = p.gifLine
              /\ fFrameDims' = p.fFrameDims
              /\ fFrameIsSubset' = p.fFrameIsSubset
              /\ fFillIndex' = p.fFillIndex
              /\ fColorTable' = p.fColorTable
              /\ result' = IF p.result # "Success" THEN p.result
                           ELSE IF ~req.dimsMatch THEN "InvalidScale"
                           ELSE IF ~req.swizzlerOk THEN "Unimplemented"
                           ELSE "pending"
              /\ pc' = IF enter THEN "rows" ELSE "returned"
              /\ fSwizzler' = IF p.result = "Success" /\ req.dimsMatch
                              THEN IF req.swizzlerOk
                                   THEN SwizzlerFor(p.fFrameIsSubset, p.fFrameDims)
                                   ELSE NullSwizzler
                              ELSE fSwizzler
              /\ dst' = IF enter
                        THEN BackgroundFill(FreshBuffer(info), p.fFrameIsSubset,
                                            p.fFillIndex, ColorTableColors(p.fColorTable))
                        ELSE FreshBuffer(info)
              /\ written' = IF enter /\ p.fFrameIsSubset
                            THEN FillAddrs(0, info, info.width, info.height)
                            ELSE {}
              /\ dstPtr' = IF enter THEN FrameOrigin(p.fFrameIsSubset, p.fFrameDims) ELSE 0
    /\ fNeedsRewind' = TRUE
    /\ y' = 0
    /\ rowLog' = <<>>
    /\ UNCHANGED <<info, gif, fTransIndex, fSrcBuffer, fCurrScanline, ilVars, scanVars, opVars>>

\* The interlaced recovery loop: the remaining rows yy .. height-1 are
\* swizzled from the buffer that memset filled.
RECURSIVE SwizzleRemaining(_, _, _, _)
SwizzleRemaining(mem, yy, height, src) ==
    IF yy >= height THEN mem
    ELSE SwizzleRemaining(
             swizzle(mem, fSwizzler,
                     dstPtr + info.width * get_output_row_interlaced(yy, height),
                     src, ColorTableColors(fColorTable)),
             yy + 1, height, src)

RemainingAddrs(yy, height) ==
    UNION {SwizzleAddrs(fSwizzler,
                        dstPtr + info.width * get_output_row_interlaced(r, height)) :
           r \in yy..(height - 1)}

\* One iteration of the row loop of onGetPixels: readRow, then the swizzle
\* of the row or, when the read failed, the recovery fill and the return.
GetPixelsRow ==
    /\ pc = "rows"
    /\ LET width == RectWidth(fFrameDims)
           height == RectHeight(fFrameDims)
           last == y + 1 >= height
       IN
       /\ rowLog' = Append(rowLog, width)
       /\ \E ok \in BOOLEAN :
          IF ok
          THEN LET src == DGifGetLine(fSrcBuffer, gifLine, width)
                   dstRow == IF gif.Image.Interlace
                             THEN dstPtr + info.width * get_output_row_interlaced(y, height)
                             ELSE dstPtr
               IN  /\ fSrcBuffer' = src
                   /\ gifLine' = gifLine + 1
                   /\ dst' = swizzle(dst, fSwizzler, dstRow, src, ColorTableColors(fColorTable))
                   /\ written' = written \cup SwizzleAddrs(fSwizzler, dstRow)
                   /\ dstPtr' = IF gif.Image.Interlace THEN dstPtr ELSE dstPtr + info.width
                   /\ y' = y + 1
                   /\ pc' = IF last THEN "returned" ELSE "rows"
                   /\ result' = IF last THEN "Success" ELSE result
          ELSE /\ IF gif.Image.Interlace
                  THEN LET src == memset(fSrcBuffer, fFillIndex, width) IN
                       /\ fSrcBuffer' = src
                       /\ dst' = SwizzleRemaining(dst, y, height, src)
                       /\ written' = written \cup RemainingAddrs(y, height)
                  ELSE /\ fSrcBuffer' = fSrcBuffer
                       /\ dst' = Fill(dst, dstPtr, info, info.width, height - y,
                                      fFillIndex, ColorTableColors(fColorTable))
                       /\ written' = written \cup
                                         FillAddrs(dstPtr, info, info.width, height - y)
               /\ pc' = "returned"
               /\ result' = "IncompleteInput"
               /\ UNCHANGED <<gifLine, dstPtr, y>>
    /\ UNCHANGED <<info, gif, fTransIndex, fFillIndex, fFrameDims, fFrameIsSubset,
                   fColorTable, fSwizzler, fNeedsRewind, fCurrScanline, opts, ilVars, scanVars, opVars>>

Next ==
    \/ GetPixelsBegin
    \/ GetPixelsRow

Init == InitCodec

Spec == Init /\ [][Next]_vars

-----------------------------------------------------------------------------
(* Properties of the bulk decode *)

\* The frame region resolved for the call, in frame coordinates.
FrameRows == 0..(RectHeight(fFrameDims) - 1)

FrameCols == 0..(RectWidth(fFrameDims) - 1)

\* The output row of encoded frame row r.
OutputRow(r) ==
    IF gif.Image.Interlace
    THEN get_output_row_interlaced(r, RectHeight(fFrameDims))
    ELSE r

CanvasAddr(row, col) == row * info.width + col

CanvasAddrs == 0..(info.width * info.height - 1)

\* The destination pixel of column x of encoded frame row r.
FramePixel(r, x) ==
    dst[CanvasAddr(fFrameDims.fTop + OutputRow(r), fFrameDims.fLeft + x)]

InFrameRegion(row, col) ==
    /\ fFrameDims.fTop <= row /\ row < fFrameDims.fBottom
    /\ fFrameDims.fLeft <= col /\ col < fFrameDims.fRight

TableColor(i) == ColorTableColors(fColorTable)[i]

\* The row loop returned because the read of encoded row y failed.
ReadFailedAtRow == pc = "returned" /\ Len(rowLog) = y + 1

\* C1: when the row read of a bulk decode first fails on encoded row k, the
\* call returns IncompleteInput, the output rows of encoded rows 0..k-1 hold
\* their decoded pixels and the output rows of encoded rows k..h-1 hold the
\* fill colour, interlaced (rows placed through the interlace mapping) or not.
C1_PartialFailure ==
    ReadFailedAtRow =>
        /\ result = "IncompleteInput"
        /\ \A r \in FrameRows, x \in FrameCols :
               FramePixel(r, x) = IF r < y
                                  THEN TableColor(SrcIndex(r, x))
                                  ELSE TableColor(fFillIndex)

\* An interlaced subset frame of three rows whose second row read failed: the
\* row decoded first is in place, the other two rows hold the fill colour,
\* which differs from what the rows encode.
C1_Witness ==
    /\ ReadFailedAtRow
    /\ gif.Image.Interlace
    /\ fFrameIsSubset
    /\ fFrameDims.fTop > 0
    /\ RectHeight(fFrameDims) = 3
    /\ y = 1
    /\ FramePixel(0, 0) = TableColor(SrcIndex(0, 0))
    /\ FramePixel(1, 0) = TableColor(fFillIndex)
    /\ FramePixel(1, 0) # TableColor(SrcIndex(1, 0))

\* C2: whatever status the bulk decode returns, every pixel of the canvas has
\* been written, and written with a colour the program defined (a decoded
\* colour or the fill colour, not a value read from memory it never wrote).
C2_DestinationFullyDefined ==
    pc = "returned" =>
        /\ \A a \in CanvasAddrs : a \in written
        /\ \A a \in CanvasAddrs :
               \E i \in TableIndices \ ColorTableUndef(fColorTable) :
                   dst[a] = TableColor(i)

C23_RowRequests ==
    /\ []((pc \in {"rows", "returned"}) =>
            /\ \A i \in 1..Len(rowLog) :
                   rowLog[i] = RectWidth(fFrameDims) /\ rowLog[i] <= info.width
            /\ Len(rowLog) <= RectHeight(fFrameDims)
            /\ pc = "rows" =>
                   /\ Len(rowLog) = gifLine
                   /\ gifLine = y
                   /\ y < RectHeight(fFrameDims)
            /\ (pc = "returned" /\ result = "Success") =>
                   /\ Len(rowLog) = RectHeight(fFrameDims)
                   /\ gifLine = RectHeight(fFrameDims)
            /\ (pc = "returned" /\ result = "IncompleteInput") =>
                   /\ Len(rowLog) = gifLine + 1
                   /\ gifLine = y
            /\ (pc = "returned" /\ result \notin {"Success", "IncompleteInput"}) =>
                   rowLog = <<>>)
    /\ [][pc = "rows" =>
              /\ Len(rowLog') = Len(rowLog) + 1
              /\ \/ gifLine' = gifLine + 1 /\ result' \in {"pending", "Success"}
                 \/ gifLine' = gifLine /\ result' = "IncompleteInput" /\ pc' = "returned"]_vars
    /\ [][pc = "returned" => (rowLog' = rowLog \/ rowLog' = <<>>)]_vars

\* A frame of three rows, declared wider than the canvas, whose third row
\* request failed: three requests of the canvas width, two rows delivered.
C23_Witness ==
    /\ pc = "returned"
    /\ result = "IncompleteInput"
    /\ gif.Image.Width > info.width
    /\ RectHeight(fFrameDims) = 3
    /\ rowLog = <<info.width, info.width, info.width>>
    /\ gifLine = 2

\* C24: bulk decode never writes outside the destination canvas: every pixel
\* written by the background fill, the decoded rows and the fallback fill
\* lies in canvas rows 0..H-1 and columns 0..W-1, for every subset frame
\* and every row at which the read fails.
C24_WritesInsideCanvas == written \subseteq CanvasAddrs

\* The resolved region is smaller than the canvas.
FrameSmallerThanCanvas ==
    fFrameDims # setXYWH(0, 0, info.width, info.height)

\* C6: after a bulk decode of a subset frame with complete input, every canvas
\* pixel outside the resolved region equals the fill colour and the pixel at
\* (left + x, top + OutputRow(r)) holds the decoded value of column x of
\* encoded row r.
C6_SubsetFrameBulkDecode ==
    (pc = "returned" /\ result = "Success" /\ FrameSmallerThanCanvas) =>
        /\ \A row \in 0..(info.height - 1), col \in 0..(info.width - 1) :
               ~InFrameRegion(row, col) =>
                   dst[CanvasAddr(row, col)] = TableColor(fFillIndex)
        /\ \A r \in FrameRows, x \in FrameCols :
               FramePixel(r, x) = TableColor(SrcIndex(r, x))

\* An interlaced frame of three rows at left = 1, top = 1, decoded completely:
\* encoded row 1 is on frame row 2, the pixel left of it holds the fill colour.
C6_Witness ==
    /\ pc = "returned"
    /\ result = "Success"
    /\ FrameSmallerThanCanvas
    /\ gif.Image.Interlace
    /\ fFrameDims.fLeft = 1
    /\ fFrameDims.fTop = 1
    /\ RectHeight(fFrameDims) = 3
    /\ dst[CanvasAddr(3, 1)] = TableColor(SrcIndex(1, 0))
    /\ dst[CanvasAddr(3, 1)] # TableColor(fFillIndex)
    /\ dst[CanvasAddr(3, 0)] = TableColor(fFillIndex)

-----------------------------------------------------------------------------
(* Incremental decode: SkGifScanlineDecoder on a constructed codec.  The    *)
(* caller hands decodeRows the address of the row the cursor stands on,     *)
(* fCurrScanline * info.width, in its full-canvas buffer; written holds the  *)
(* addresses the last call wrote.                                           *)

SkTMin(a, b) == IF a < b THEN a ELSE b

\* The number of iterations of a loop "for (i = 0; i < count; i++)".
Iterations(count) == IF count > 0 THEN count ELSE 0

\* SkGifScanlineDecoder::onGetY, reached through INHERITED::getY().
onGetY ==
    IF gif.Image.Interlace
    THEN get_output_row_interlaced(fCurrScanline, info.height)
    ELSE fCurrScanline

\* onGetScanlines before its row loop: the fill of the requested rows, the
\* row count and the destination pointer as the frame adjustments leave them.
ScanlinePrologue(start, count) ==
    IF fFrameIsSubset
    THEN LET rowsBeforeFrame == fFrameDims.fTop - onGetY
             count1 == IF rowsBeforeFrame > 0
                       THEN SkTMin(0, count - rowsBeforeFrame)
                       ELSE count
             dst1 == IF rowsBeforeFrame > 0
                     THEN start + info.width * rowsBeforeFrame
                     ELSE start
             rowsAfterFrame == onGetY + count1 - fFrameDims.fBottom
             count2 == IF rowsAfterFrame > 0
                       THEN SkTMin(0, count1 - rowsAfterFrame)
                       ELSE count1
         IN  [mem |-> Fill(dst, start, info, info.width, count, fFillIndex,
                           ColorTableColors(fColorTable)),
              written |-> FillAddrs(start, info, info.width, count),
              count |-> count2,
              dst |-> dst1 + fFrameDims.fLeft]
    ELSE [mem |-> dst, written |-> {}, count |-> count, dst |-> start]

\* The row loop of onGetScanlines from iteration i on: the first nOk reads of
\* the call succeed, the next one (if the loop gets to it) fails.  s is
\* [mem, written, dst, gifLine, fSrcBuffer, result].
RECURSIVE ScanlineRows(_, _, _, _)
ScanlineRows(s, i, count, nOk) ==
    IF i >= count THEN s
    ELSE IF i >= nOk
         THEN [s EXCEPT !.mem = Fill(s.mem, s.dst, info, info.width, count - i,
                                     fFillIndex, ColorTableColors(fColorTable)),
                        !.written = s.written \cup
                                        FillAddrs(s.dst, info, info.width, count - i),
                        !.result = "IncompleteInput"]
         ELSE LET src == DGifGetLine(s.fSrcBuffer, s.gifLine, RectWidth(fFrameDims))
              IN  ScanlineRows(
                      [s EXCEPT !.mem = swizzle(s.mem, fSwizzler, s.dst, src,
                                                ColorTableColors(fColorTable)),
                                !.written = s.written \cup SwizzleAddrs(fSwizzler, s.dst),
                                !.dst = s.dst + info.width,
                                !.gifLine = s.gifLine + 1,
                                !.fSrcBuffer = src],
                      i + 1, count, nOk)

onGetScanlines(start, count, nOk) ==
    LET p == ScanlinePrologue(start, count)
    IN  ScanlineRows([mem |-> p.mem, written |-> p.written, dst |-> p.dst,
                      gifLine |-> gifLine, fSrcBuffer |-> fSrcBuffer,
                      result |-> "Success"],
                     0, p.count, nOk)

\* Frames that lie within the canvas as encoded; the geometry harness and the
\* bulk decode cover the descriptors that need shifting or are rejected.
InitScanline ==
    /\ \E w \in 1..MaxCanvasWidth, h \in 1..MaxCanvasHeight,
          interlace \in BOOLEAN, scen \in ColorScenarios :
          \E left \in 0..(w - 1), top \in 0..(h - 1) :
              \E width \in 1..(w - left), height \in 1..(h - top) :
                  Constructed([width |-> w, height |-> h],
                              GifOf(<<left, top, width, height>>, interlace,
                                    scen.local, scen.global, scen.background),
                              scen.trans, "idle")
    /\ IlNone
    /\ OpNone
    /\ ScanNone

\* SkScanlineDecoder::start with onStart: the cursor is reset and the
\* caller's buffer is fresh.  A request whose dimensions do not match is one
\* the sampler does not support.  The caller starts over once the session
\* before has ended: on an error status or with all canvas rows requested.
SDStart ==
    /\ \/ pc \in {"idle", "returned"}
       \/ pc = "started" /\ fCurrScanline = info.height
    /\ \E req \in SessionRequests, stackWord \in StackWords :
          \E p \in {prepareToDecode(req, stackWord)} :
              /\ opts' = req
              /\ gifLine' = p.gifLine
              /\ fFrameDims' = p.fFrameDims
              /\ fFrameIsSubset' = p.fFrameIsSubset
              /\ fFillIndex' = p.fFillIndex
              /\ fColorTable' = p.fColorTable
              /\ result' = IF p.result # "Success" THEN p.result
                           ELSE IF ~req.dimsMatch THEN "InvalidScale"
                           ELSE IF ~req.swizzlerOk THEN "Unimplemented"
                           ELSE "Success"
              /\ pc' = IF p.result = "Success" /\ req.dimsMatch /\ req.swizzlerOk
                       THEN "started"
                       ELSE "returned"
              /\ fSwizzler' = IF p.result = "Success" /\ req.dimsMatch
                              THEN IF req.swizzlerOk
                                   THEN SwizzlerFor(p.fFrameIsSubset, p.fFrameDims)
                                   ELSE NullSwizzler
                              ELSE fSwizzler
    /\ fCurrScanline' = 0
    /\ fNeedsRewind' = TRUE
    /\ dst' = FreshBuffer(info)
    /\ written' = {}
    /\ UNCHANGED <<info, gif, fTransIndex, fSrcBuffer, dstPtr, y, rowLog, ilVars, scanVars, opVars>>

\* SkScanlineDecoder::getScanlines with onGetScanlines: count rows from the
\* cursor on, the cursor advanced by count.  The caller stops requesting rows
\* after a status other than Success.
SDGetScanlines ==
    /\ pc = "started"
    /\ \E count \in 1..(info.height - fCurrScanline) :
          \E nOk \in 0..Iterations(ScanlinePrologue(fCurrScanline * info.width, count).count) :
              \E r \in {onGetScanlines(fCurrScanline * info.width, count, nOk)} :
                  /\ dst' = r.mem
                  /\ written' = r.written
                  /\ gifLine' = r.gifLine
                  /\ fSrcBuffer' = r.fSrcBuffer
                  /\ result' = r.result
                  /\ pc' = IF r.result = "Success" THEN "started" ELSE "returned"
                  /\ fCurrScanline' = fCurrScanline + count
    /\ UNCHANGED <<info, gif, fTransIndex, fFillIndex, fFrameDims, fFrameIsSubset,
                   fColorTable, fSwizzler, dstPtr, y, rowLog, fNeedsRewind, opts,
                   ilVars, scanVars, opVars>>

NextScanline ==
    \/ SDStart
    \/ SDGetScanlines

SpecScanline == InitScanline /\ [][NextScanline]_vars

\* C7: on a non-interlaced subset frame with complete input, once the caller
\* has requested all canvas rows top to bottom, however split into calls, the
\* canvas is the one bulk decode produces: every pixel inside the region holds
\* its decoded value and every pixel outside holds the fill colour.
C7_IncrementalAgreesWithBulk ==
    (/\ pc = "started"
     /\ fCurrScanline = info.height
     /\ FrameSmallerThanCanvas
     /\ ~gif.Image.Interlace) =>
        \A row \in 0..(info.height - 1), col \in 0..(info.width - 1) :
            dst[CanvasAddr(row, col)] =
                IF InFrameRegion(row, col)
                THEN TableColor(SrcIndex(row - fFrameDims.fTop, col - fFrameDims.fLeft))
                ELSE TableColor(fFillIndex)

\* A decodeRows step: the cursor moved on by the count of the call.
DecodeRowsStep == fCurrScanline' > fCurrScanline

\* The addresses of canvas rows first .. first + count - 1.
RowsAddrs(first, count) ==
    {CanvasAddr(row, col) : row \in first..(first + count - 1),
                            col \in 0..(info.width - 1)}

\* The column at which decodeRows places the first pixel of a decoded row.
DecodeLeft == IF fFrameIsSubset THEN fFrameDims.fLeft ELSE 0

\* In a decodeRows step whose read failed: the rows of the call decoded
\* before the failure hold their pixels, the rows from the failure on hold
\* the fill colour.
FailedCallRows ==
    LET count == fCurrScanline' - fCurrScanline
        i == gifLine' - gifLine
    IN  /\ \A r \in 0..(i - 1), x \in 0..(fSwizzler.width - 1) :
               dst'[CanvasAddr(fCurrScanline + r, DecodeLeft + x)] =
                   TableColor(SrcIndex(gifLine + r, x))
        /\ \A r \in i..(count - 1), col \in 0..(info.width - 1) :
               dst'[CanvasAddr(fCurrScanline + r, col)] = TableColor(fFillIndex)

\* C16: decodeRows(count) confines its effects to the count rows of the call.
\* When the read fails at row i of the call it returns IncompleteInput with
\* rows 0..i-1 of the call decoded and rows i..count-1 filled with the fill
\* colour, and in every case no pixel outside the count rows is written.
C16_DecodeRowsConfined ==
    [][DecodeRowsStep =>
          /\ written' \subseteq RowsAddrs(fCurrScanline, fCurrScanline' - fCurrScanline)
          /\ result' \in {"Success", "IncompleteInput"}
          /\ result' = "IncompleteInput" => FailedCallRows]_vars

\* C17: currentOutputRow (onGetY) reports the output position of the next row
\* to be decoded: the row cursor for a non-interlaced image, and for an
\* interlaced image with next encoded row r of a frame of height h the
\* interlace mapping of r for h, where bulk decode places that row, for
\* full-canvas and subset frames.
C17_CurrentOutputRow ==
    (pc = "started" /\ fCurrScanline < info.height) =>
        IF gif.Image.Interlace
        THEN gifLine < RectHeight(fFrameDims) =>
                 onGetY = get_output_row_interlaced(gifLine, RectHeight(fFrameDims))
        ELSE onGetY = fCurrScanline

-----------------------------------------------------------------------------
(* Fill-rect op: FillRectOp and GrFillRectOp.                                *)
(* An entry of the quad set is [tag, edge, aligned, clip]: tag stands for   *)
(* its rectangle, matrices and colour, edge says that its AA flags are not  *)
(* kNone, aligned that it is an axis-aligned rect on pixel boundaries, and  *)
(* clip is the number of quads GrQuadUtils::ClipToW0 makes of its device    *)
(* quad (0, 1 or 2).  A DrawQuad is [tag, edge, clip]; a quad stored in an  *)
(* op is [tag, edge].  Bounds are [rect, aaBloat] with rect the set of the  *)
(* tags joined.                                                             *)

\* Quad limits of the index buffers (GrResourceProvider), scaled down.
MaxNumAAQuads == 2

MaxNumNonAAQuads == 3

\* Largest quad set handed to AddFillRectOps.
MaxQuads == 4

SK_MaxS32 == 2147483647

AATypes == {"kNone", "kCoverage", "kMSAA"}

\* GrQuadPerEdgeAA::ColorType: kNone, kByte, kFloat; UninitColorType is
\* fColorType before finalize has assigned it.
ColorTypes == 0..2

UninitColorType == 0 - 1

\* GrQuadUtils::ResolveAAType: [aaType, edge].
ResolveAAType(requestedAAType, edge, aligned) ==
    CASE requestedAAType = "kCoverage" ->
             IF ~edge \/ aligned
             THEN [aaType |-> "kNone", edge |-> FALSE]
             ELSE [aaType |-> "kCoverage", edge |-> TRUE]
      [] requestedAAType = "kNone" -> [aaType |-> "kNone", edge |-> FALSE]
      [] requestedAAType = "kMSAA" -> [aaType |-> "kMSAA", edge |-> TRUE]

\* GrQuadUtils::ClipToW0: the number of quads left (the DrawQuad carries it).
ClipToW0(quad) == quad.clip

CalcIndexBufferOption(aa, numQuads) ==
    IF aa = "kCoverage" THEN "kPictureFramed"
    ELSE IF numQuads > 1 THEN "kIndexedRects"
    ELSE "kTriStrips"

QuadLimit(option) ==
    CASE option = "kPictureFramed" -> MaxNumAAQuads
      [] option = "kIndexedRects" -> MaxNumNonAAQuads
      [] option = "kTriStrips" -> SK_MaxS32

CanUpgradeAAOnMerge(aa1, aa2) ==
    \/ aa1 = "kNone" /\ aa2 = "kCoverage"
    \/ aa1 = "kCoverage" /\ aa2 = "kNone"

CombinedQuadCountWillOverflow(aaType, willBeUpgradedToAA, combinedQuadCount) ==
    LET willBeAA == aaType = "kCoverage" \/ willBeUpgradedToAA
    IN  combinedQuadCount > (IF willBeAA THEN MaxNumAAQuads ELSE MaxNumNonAAQuads)

HasAABloat(aaType) == aaType = "kCoverage"

\* Variant of the constructor that appends what the clip left, also nothing.
FillRectOpNoKeep(aaType, quad) ==
    LET count == IF quad.edge THEN ClipToW0(quad) ELSE 1
        stored == [tag |-> quad.tag, edge |-> quad.edge]
    IN  [made |-> TRUE,
         fQuads |-> IF count = 0 THEN <<>>
                    ELSE IF count > 1 THEN <<stored, stored>> ELSE <<stored>>,
         aaType |-> aaType,
         fColorType |-> UninitColorType,
         bounds |-> [rect |-> {quad.tag}, aaBloat |-> HasAABloat(aaType)]]

\* FillRectOp::FillRectOp on a quad whose AA type has been resolved.
FillRectOp(aaType, quad) ==
    LET clipped == IF quad.edge THEN ClipToW0(quad) ELSE 1
        edge == IF clipped = 0 THEN FALSE ELSE quad.edge
        count == IF clipped = 0 THEN 1 ELSE clipped
        stored == [tag |-> quad.tag, edge |-> edge]
    IN  [made |-> TRUE,
         fQuads |-> IF count > 1 THEN <<stored, stored>> ELSE <<stored>>,
         aaType |-> aaType,
         fColorType |-> UninitColorType,
         bounds |-> [rect |-> {quad.tag}, aaBloat |-> HasAABloat(aaType)]]

\* FillRectOp::Make: resolves the AA type, then constructs.
Make(aaType, entry) ==
    LET r == ResolveAAType(aaType, entry.edge, entry.aligned)
    IN  FillRectOp(r.aaType, [tag |-> entry.tag, edge |-> r.edge, clip |-> entry.clip])

\* Variant of canAddQuads that lifts the AA type before it checks the limit.
canAddQuadsLiftFirst(op, numQuads, aaType) ==
    LET quadCount == Len(op.fQuads) + numQuads
        lifted == IF aaType # op.aaType /\ aaType # "kNone" THEN aaType ELSE op.aaType
    IN  [ret |-> quadCount <= QuadLimit(CalcIndexBufferOption(lifted, quadCount)),
         aaType |-> lifted]

\* FillRectOp::canAddQuads: [ret, aaType], the AA type of the helper after
\* the call.
canAddQuads(op, numQuads, aaType) ==
    LET quadCount == Len(op.fQuads) + numQuads
    IN  IF aaType # op.aaType /\ aaType # "kNone"
        THEN IF quadCount > QuadLimit(CalcIndexBufferOption(aaType, quadCount))
             THEN [ret |-> FALSE, aaType |-> op.aaType]
             ELSE [ret |-> TRUE, aaType |-> aaType]
        ELSE IF quadCount > QuadLimit(CalcIndexBufferOption(op.aaType, quadCount))
             THEN [ret |-> FALSE, aaType |-> op.aaType]
             ELSE [ret |-> TRUE, aaType |-> op.aaType]

\* FillRectOp::addQuad: [ret, count, op].
addQuad(op, quad, aaType) ==
    LET newBounds == op.bounds.rect \cup {quad.tag}
        count == IF quad.edge THEN ClipToW0(quad) ELSE 1
        stored == [tag |-> quad.tag, edge |-> quad.edge]
    IN  IF count = 0
        THEN [ret |-> TRUE, count |-> count, op |-> op]
        ELSE LET can == canAddQuads(op, count, aaType) IN
             IF ~can.ret
             THEN [ret |-> FALSE, count |-> count,
                   op |-> [op EXCEPT !.aaType = can.aaType]]
             ELSE [ret |-> TRUE, count |-> count,
                   op |-> [op EXCEPT
                             !.fQuads = op.fQuads \o
                                 (IF count > 1 THEN <<stored, stored>> ELSE <<stored>>),
                             !.aaType = can.aaType,
                             !.bounds = [rect |-> newBounds,
                                         aaBloat |-> HasAABloat(can.aaType)]]]

\* Variant of onCombineIfPossible that puts the other op's quads first.
onCombineIfPossiblePrepend(op, that, compatible) ==
    LET differ == op.aaType # that.aaType
    IN  IF (differ /\ ~CanUpgradeAAOnMerge(op.aaType, that.aaType))
           \/ CombinedQuadCountWillOverflow(op.aaType, differ,
                                            Len(op.fQuads) + Len(that.fQuads))
           \/ ~compatible
        THEN [ret |-> "kCannotCombine", op |-> op]
        ELSE [ret |-> "kMerged",
              op |-> [op EXCEPT
                        !.fColorType = IF op.fColorType > that.fColorType
                                       THEN op.fColorType ELSE that.fColorType,
                        !.aaType = IF differ THEN "kCoverage" ELSE op.aaType,
                        !.fQuads = that.fQuads \o op.fQuads]]

\* FillRectOp::onCombineIfPossible: [ret, op]; compatible is what
\* fHelper.isCompatible answers.
onCombineIfPossible(op, that, compatible) ==
    LET differ == op.aaType # that.aaType
    IN  IF differ /\ ~CanUpgradeAAOnMerge(op.aaType, that.aaType)
        THEN [ret |-> "kCannotCombine", op |-> op]
        ELSE IF CombinedQuadCountWillOverflow(op.aaType, differ,
                                              Len(op.fQuads) + Len(that.fQuads))
        THEN [ret |-> "kCannotCombine", op |-> op]
        ELSE IF ~compatible
        THEN [ret |-> "kCannotCombine", op |-> op]
        ELSE [ret |-> "kMerged",
              op |-> [op EXCEPT
                        !.fColorType = IF op.fColorType > that.fColorType
                                       THEN op.fColorType ELSE that.fColorType,
                        !.aaType = IF differ THEN "kCoverage" ELSE op.aaType,
                        !.fQuads = op.fQuads \o that.fQuads]]

\* FillRectOp::finalize: SkAssertResult(iter.next()) holds iff a first quad
\* exists; colorType is what the colour analysis arrives at.
finalize(op, colorType) ==
    [asserted |-> Len(op.fQuads) >= 1, op |-> [op EXCEPT !.fColorType = colorType]]

\* The loop of MakeOp from entry i on: quads are the entries still left,
\* cnt their number.
RECURSIVE MakeOpLoop(_, _, _, _, _, _)
MakeOpLoop(fillRectsOp, quads, i, cnt, aaType, numConsumed) ==
    IF i > cnt
    THEN [op |-> fillRectsOp, numConsumed |-> numConsumed]
    ELSE LET resolved == ResolveAAType(aaType, quads[i].edge, quads[i].aligned)
             quad == [tag |-> quads[i].tag, edge |-> resolved.edge,
                      clip |-> quads[i].clip]
         IN  CHOOSE out \in
                 {IF ~added.ret
                  THEN [op |-> added.op, numConsumed |-> numConsumed]
                  ELSE MakeOpLoop(added.op, quads, i + 1, cnt, aaType, numConsumed + 1) :
                  added \in {addQuad(fillRectsOp, quad, resolved.aaType)}} : TRUE

\* Variant of MakeOp that counts the quads it stored rather than those it
\* went through.
MakeOpCountStored(quads, cnt, aaType) ==
    CHOOSE out \in
        {[op |-> r.op,
          numConsumed |-> Cardinality({r.op.fQuads[k].tag : k \in 1..Len(r.op.fQuads)})] :
         r \in {MakeOpLoop(first, quads, 2, cnt, aaType, 1) :
                first \in {Make(aaType, quads[1])}}} : TRUE

\* GrFillRectOp::MakeOp (C index i is TLA+ index i + 1): [op, numConsumed].
MakeOp(quads, cnt, aaType) ==
    CHOOSE out \in {MakeOpLoop(first, quads, 2, cnt, aaType, 1) :
                    first \in {Make(aaType, quads[1])}} : TRUE

-----------------------------------------------------------------------------
(* GrFillRectOp::AddFillRectOps, one action per iteration of its loop.      *)

\* What an entry of the quad set may be, its tag apart.
QuadKinds ==
    {[edge |-> FALSE, aligned |-> FALSE, clip |-> 1],
     [edge |-> FALSE, aligned |-> FALSE, clip |-> 0],
     [edge |-> TRUE, aligned |-> TRUE, clip |-> 1],
     [edge |-> TRUE, aligned |-> FALSE, clip |-> 1],
     [edge |-> TRUE, aligned |-> FALSE, clip |-> 2],
     [edge |-> TRUE, aligned |-> FALSE, clip |-> 0]}

EntryOf(kind, tag) ==
    [tag |-> tag, edge |-> kind.edge, aligned |-> kind.aligned, clip |-> kind.clip]

InitAddFillRectOps ==
    /\ draw = [quads |-> <<>>, aaType |-> "kNone"]
    /\ addOps = [pc |-> "idle", offset |-> 0, numLeft |-> 0, ops |-> <<>>]
    /\ fillRects = NoOp
    /\ thatOp = NoOp
    /\ opCall = NoCall
    /\ IlNone
    /\ ScanNone
    /\ CodecNone

\* AddFillRectOps is called with cnt quads: offset = 0, numLeft = cnt.
AddFillRectOpsCall ==
    /\ addOps.pc = "idle"
    /\ \E cnt \in 0..MaxQuads, aaType \in AATypes :
          \E kinds \in [1..cnt -> QuadKinds] :
              /\ draw' = [quads |-> [i \in 1..cnt |-> EntryOf(kinds[i], i)],
                          aaType |-> aaType]
              /\ addOps' = [pc |-> "loop", offset |-> 0, numLeft |-> cnt, ops |-> <<>>]
    /\ UNCHANGED <<fillRects, thatOp, opCall, ilVars, scanVars, codecVars>>

\* One iteration of "while (numLeft)": MakeOp on the quads still left, then
\* rtc->addDrawOp.
AddFillRectOpsIteration ==
    /\ addOps.pc = "loop"
    /\ addOps.numLeft # 0
    /\ \E left \in {SubSeq(draw.quads, addOps.offset + 1, Len(draw.quads))} :
       \E r \in {MakeOp(left, addOps.numLeft, draw.aaType)} :
          /\ addOps' = [pc |-> "loop",
                        offset |-> addOps.offset + r.numConsumed,
                        numLeft |-> addOps.numLeft - r.numConsumed,
                        ops |-> Append(addOps.ops,
                                       [op |-> r.op, first |-> addOps.offset,
                                        numConsumed |-> r.numConsumed])]
          /\ fillRects' = r.op
    /\ UNCHANGED <<draw, thatOp, opCall, ilVars, scanVars, codecVars>>

\* The loop ends and SkASSERT(offset == cnt) is evaluated.
AddFillRectOpsExit ==
    /\ addOps.pc = "loop"
    /\ addOps.numLeft = 0
    /\ addOps' = [addOps EXCEPT !.pc = IF addOps.offset = Len(draw.quads)
                                        THEN "done" ELSE "assert"]
    /\ UNCHANGED <<draw, fillRects, thatOp, opCall, ilVars, scanVars, codecVars>>

NextAddFillRectOps ==
    \/ AddFillRectOpsCall
    \/ AddFillRectOpsIteration
    \/ AddFillRectOpsExit

\* The loop is sequential code: once called, a step of it that can run does
\* run.
SpecAddFillRectOps ==
    /\ InitAddFillRectOps
    /\ [][NextAddFillRectOps]_vars
    /\ WF_vars(AddFillRectOpsIteration \/ AddFillRectOpsExit)

\* The entries op k of the added ops consumed: first + 1 .. first + numConsumed.
ConsumedBy(k) ==
    (addOps.ops[k].first + 1)..(addOps.ops[k].first + addOps.ops[k].numConsumed)

\* Entry i as the DrawQuad and AA type MakeOp hands to addQuad.
ResolvedQuad(i) ==
    [tag |-> draw.quads[i].tag,
     edge |-> ResolveAAType(draw.aaType, draw.quads[i].edge, draw.quads[i].aligned).edge,
     clip |-> draw.quads[i].clip]

ResolvedAA(i) ==
    ResolveAAType(draw.aaType, draw.quads[i].edge, draw.quads[i].aligned).aaType

\* C25: AddFillRectOps terminates and the ops it adds partition the quad set
\* in order: every MakeOp consumes at least one and at most all of the quads
\* still left, a contiguous prefix of them that ends at the first quad
\* addQuad refuses; every quad is consumed by exactly one op, and at the
\* exit offset equals cnt.
C25_OpsPartitionQuads ==
    /\ [](LET ops == addOps.ops
              cnt == Len(draw.quads)
          IN  addOps.pc \in {"loop", "done", "assert"} =>
              /\ addOps.pc # "assert"
              /\ addOps.offset + addOps.numLeft = cnt
              /\ addOps.numLeft >= 0
              /\ \A k \in 1..Len(ops) :
                     /\ ops[k].first = IF k = 1 THEN 0
                                       ELSE ops[k - 1].first + ops[k - 1].numConsumed
                     /\ ops[k].numConsumed >= 1
                     /\ ops[k].numConsumed <= cnt - ops[k].first
                     /\ \A q \in 1..Len(ops[k].op.fQuads) :
                            ops[k].op.fQuads[q].tag \in ConsumedBy(k)
                     /\ \A q \in 2..Len(ops[k].op.fQuads) :
                            ops[k].op.fQuads[q - 1].tag <= ops[k].op.fQuads[q].tag
                     /\ ops[k].op.fQuads[1].tag = ops[k].first + 1
                     /\ ops[k].first + ops[k].numConsumed < cnt =>
                            ~addQuad(ops[k].op,
                                     ResolvedQuad(ops[k].first + ops[k].numConsumed + 1),
                                     ResolvedAA(ops[k].first + ops[k].numConsumed + 1)).ret
              /\ addOps.offset = IF ops = <<>> THEN 0
                                 ELSE ops[Len(ops)].first + ops[Len(ops)].numConsumed
              /\ addOps.pc = "done" =>
                     /\ addOps.offset = cnt
                     /\ \A i \in 1..cnt :
                            Cardinality({k \in 1..Len(ops) : i \in ConsumedBy(k)}) = 1)
    /\ [][addOps.pc = "loop" =>
              \/ addOps'.numLeft < addOps.numLeft
              \/ addOps'.pc = "done"]_vars
    /\ (addOps.pc = "loop") ~> (addOps.pc = "done")

\* A coverage-AA set of three quads ended in two ops: the first op took a
\* quad that was clipped in two and went through one that was clipped away,
\* the second starts at the quad that no longer fitted.
C25_Witness ==
    /\ addOps.pc = "done"
    /\ draw.aaType = "kCoverage"
    /\ Len(draw.quads) = 3
    /\ Len(addOps.ops) = 2
    /\ addOps.ops[1].numConsumed = 2
    /\ Len(addOps.ops[1].op.fQuads) = 2
    /\ draw.quads[2].edge /\ ~draw.quads[2].aligned /\ draw.quads[2].clip = 0
    /\ addOps.ops[2].first = 2

-----------------------------------------------------------------------------
(* One FillRectOp through its life: constructed, quads added (as MakeOp     *)
(* does), finalized (as addDrawOp does before the op is recorded), and      *)
(* offered other recorded ops to combine with.  The op's own quads carry    *)
(* tag 1 (constructor) and 2 (addQuad), those of the other op tag 3.        *)

\* The number of quads the clip of a DrawQuad reports.
ClipCount(quad) == IF quad.edge THEN ClipToW0(quad) ELSE 1

\* The DrawQuad of an entry after ResolveAAType.
DrawQuadOf(aaType, entry) ==
    [tag |-> entry.tag,
     edge |-> ResolveAAType(aaType, entry.edge, entry.aligned).edge,
     clip |-> entry.clip]

\* The ops that may be offered: made from one quad and finalized.
RecordedOps ==
    {finalize(Make(aaType, EntryOf(kind, 3)), colorType).op :
        aaType \in AATypes, kind \in QuadKinds, colorType \in ColorTypes}

InitFillRectOp ==
    /\ \E aaType \in AATypes, kind \in QuadKinds :
          /\ fillRects = Make(aaType, EntryOf(kind, 1))
          /\ opCall = [fn |-> "FillRectOp", ret |-> "none",
                       count |-> ClipCount(DrawQuadOf(aaType, EntryOf(kind, 1)))]
    /\ thatOp \in RecordedOps
    /\ draw = [quads |-> <<>>, aaType |-> "kNone"]
    /\ addOps = [pc |-> "off", offset |-> 0, numLeft |-> 0, ops |-> <<>>]
    /\ IlNone
    /\ ScanNone
    /\ CodecNone

\* addQuad as MakeOp calls it: the AA type is the resolved one, which is
\* the op's, or kNone, or the op's was downgraded to kNone (the SkASSERT of
\* canAddQuads).
AddQuadCall ==
    /\ fillRects.made
    /\ \E aaType \in AATypes, kind \in QuadKinds :
          \E resolved \in {ResolveAAType(aaType, kind.edge, kind.aligned)} :
              /\ \/ resolved.aaType = fillRects.aaType
                 \/ resolved.aaType = "kNone"
                 \/ fillRects.aaType = "kNone"
              /\ \E r \in {addQuad(fillRects, DrawQuadOf(aaType, EntryOf(kind, 2)),
                                   resolved.aaType)} :
                    /\ fillRects' = r.op
                    /\ opCall' = [fn |-> "addQuad",
                                  ret |-> IF r.ret THEN "true" ELSE "false",
                                  count |-> r.count]
    /\ UNCHANGED <<draw, addOps, thatOp, ilVars, scanVars, codecVars>>

FinalizeCall ==
    /\ fillRects.made
    /\ \E colorType \in ColorTypes :
          \E f \in {finalize(fillRects, colorType)} :
              /\ fillRects' = f.op
              /\ opCall' = [fn |-> "finalize",
                            ret |-> IF f.asserted THEN "ok" ELSE "assert",
                            count |-> 0]
    /\ UNCHANGED <<draw, addOps, thatOp, ilVars, scanVars, codecVars>>

\* onCombineIfPossible of the (finalized) op with the op on offer.
CombineCall ==
    /\ fillRects.made
    /\ fillRects.fColorType # UninitColorType
    /\ \E compatible \in BOOLEAN :
          \E r \in {onCombineIfPossible(fillRects, thatOp, compatible)} :
              /\ fillRects' = r.op
              /\ opCall' = [fn |-> "onCombineIfPossible", ret |-> r.ret,
                            count |-> Len(thatOp.fQuads)]
    /\ thatOp' = thatOp
    /\ UNCHANGED <<draw, addOps, ilVars, scanVars, codecVars>>

\* After an attempt to combine, another recorded op is on offer.
OfferOp ==
    /\ opCall.fn = "onCombineIfPossible"
    /\ thatOp' \in RecordedOps
    /\ opCall' = [fn |-> "offer", ret |-> "none", count |-> 0]
    /\ UNCHANGED <<draw, addOps, fillRects, ilVars, scanVars, codecVars>>

NextFillRectOp ==
    \/ AddQuadCall
    \/ FinalizeCall
    \/ CombineCall
    \/ OfferOp

SpecFillRectOp == InitFillRectOp /\ [][NextFillRectOp]_vars

\* C26: a FillRectOp holds at least one quad from construction on: after
\* the constructor (when the clip reports zero quads one quad is kept, its
\* edge flags cleared) and after any sequence of addQuad and
\* onCombineIfPossible calls, so the assertion of finalize that a first quad
\* exists holds.
C26_AtLeastOneQuad ==
    /\ fillRects.made => Len(fillRects.fQuads) >= 1
    /\ thatOp.made => Len(thatOp.fQuads) >= 1
    /\ (opCall.fn = "FillRectOp" /\ opCall.count = 0) =>
           fillRects.fQuads = <<[tag |-> 1, edge |-> FALSE]>>
    /\ opCall.fn = "finalize" => opCall.ret = "ok"

\* An op made from a coverage-AA quad that was clipped away, holding that
\* one quad without edge flags, passed the assertion of finalize.
C26_Witness ==
    /\ opCall.fn = "finalize"
    /\ opCall.ret = "ok"
    /\ fillRects.aaType = "kCoverage"
    /\ fillRects.fQuads = <<[tag |-> 1, edge |-> FALSE]>>

\* The quad limit of the index-buffer option of an op.
OpQuadLimit(op) == QuadLimit(CalcIndexBufferOption(op.aaType, Len(op.fQuads)))

\* C27: an addQuad that returns false leaves the op's quads, AA type and
\* bounds as they were; an addQuad whose quad clips to zero quads returns
\* true and changes nothing either; any other addQuad that returns true
\* appends exactly the 1 or 2 clipped quads; and the quad count never exceeds
\* the quad limit of the op's index-buffer option.
C27_AddQuadFrame ==
    /\ [](fillRects.made => Len(fillRects.fQuads) <= OpQuadLimit(fillRects))
    /\ [][opCall'.fn = "addQuad" =>
              /\ opCall'.ret = "false" =>
                     /\ fillRects'.fQuads = fillRects.fQuads
                     /\ fillRects'.aaType = fillRects.aaType
                     /\ fillRects'.bounds = fillRects.bounds
              /\ opCall'.count = 0 =>
                     /\ opCall'.ret = "true"
                     /\ fillRects' = fillRects
              /\ (opCall'.ret = "true" /\ opCall'.count # 0) =>
                     /\ opCall'.count \in {1, 2}
                     /\ Len(fillRects'.fQuads) = Len(fillRects.fQuads) + opCall'.count
                     /\ SubSeq(fillRects'.fQuads, 1, Len(fillRects.fQuads)) =
                            fillRects.fQuads
                     /\ \A k \in (Len(fillRects.fQuads) + 1)..Len(fillRects'.fQuads) :
                            fillRects'.fQuads[k].tag = 2]_vars

\* An op without AA that still has room for non-AA quads refused a quad:
\* one that would have lifted it to an AA type whose limit it would exceed.
C27_Witness ==
    /\ opCall.fn = "addQuad"
    /\ opCall.ret = "false"
    /\ fillRects.aaType = "kNone"
    /\ Len(fillRects.fQuads) + opCall.count <= MaxNumNonAAQuads
    /\ Len(fillRects.fQuads) + opCall.count > MaxNumAAQuads

\* C28: when onCombineIfPossible returns kCannotCombine the op's quads, AA
\* type and colour type are unchanged; when it returns kMerged the op's
\* quads are its previous quads followed by the other op's, its colour type
\* is the larger of the two, and its AA type becomes coverage exactly when
\* the two AA types differed (and stays otherwise); the other op is never
\* modified.
C28_CombineOutcome ==
    [][opCall'.fn = "onCombineIfPossible" =>
          /\ thatOp' = thatOp
          /\ opCall'.ret \in {"kCannotCombine", "kMerged"}
          /\ opCall'.ret = "kCannotCombine" =>
                 /\ fillRects'.fQuads = fillRects.fQuads
                 /\ fillRects'.aaType = fillRects.aaType
                 /\ fillRects'.fColorType = fillRects.fColorType
          /\ opCall'.ret = "kMerged" =>
                 /\ fillRects'.fQuads = fillRects.fQuads \o thatOp.fQuads
                 /\ Len(fillRects'.fQuads) = Len(fillRects.fQuads) + Len(thatOp.fQuads)
                 /\ fillRects'.fColorType =
                        (IF fillRects.fColorType >= thatOp.fColorType
                         THEN fillRects.fColorType ELSE thatOp.fColorType)
                 /\ fillRects'.aaType = (IF fillRects.aaType # thatOp.aaType
                                         THEN "kCoverage" ELSE fillRects.aaType)]_vars

\* An op without AA holding its first quad was merged with a coverage-AA op
\* of a larger colour type: it is lifted to coverage and holds its quad
\* followed by the other op's.
C28_Witness ==
    /\ opCall.fn = "onCombineIfPossible"
    /\ opCall.ret = "kMerged"
    /\ thatOp.aaType = "kCoverage"
    /\ fillRects.aaType = "kCoverage"
    /\ fillRects.fQuads = <<[tag |-> 1, edge |-> FALSE]>> \o thatOp.fQuads
    /\ thatOp.fQuads[1].edge
    /\ fillRects.fColorType = thatOp.fColorType
    /\ thatOp.fColorType = 2

====
